---- MODULE Spec2Model ----
(***************************************************************************)
(* Model of the migration / seed engine of pkg/database/seeder: a Manager  *)
(* holding two registration lists and driving a transactional store        *)
(* (Pool.Begin / Pool.Query, Tx.Exec / Tx.Commit / Tx.Rollback).           *)
(*                                                                         *)
(* Every store call is one step, so that other processes, store failures   *)
(* and crashes can fall between any two calls.  Each process owns one      *)
(* Manager; all processes share the store.                                 *)
(***************************************************************************)
EXTENDS Integers, Sequences, FiniteSets, TLC

\* ------------------------------------------------------------------ bounds
MaxVersion == 3
MaxMigrations == 3

Procs == {"p1", "p2"}
Versions == 1..MaxVersion
Descriptions == {"d"}
MaxPriority == 3
MaxSeeds == 3
Names == {"a", "b", "c"}
Priorities == 1..MaxPriority

\* seeder.go:14-19.  Up and Down are script texts; the effect of running the
\* Up script of a migration is identified by the migration's Version.
Migration == [Version : Versions, Description : Descriptions]

\* seeder.go:49-53.  Run is an action on the transaction; its effect is
\* identified by the seed's Name.
Seed == [Name : Names, Priority : Priorities]

VARIABLES
  migrations,        \* Manager.migrations, per process
  seeds,             \* Manager.seeds, per process
  pc,                \* position of each process inside RunMigrations
  tx,                \* the transaction handle held by the running function
  applied,           \* the local map returned by getAppliedMigrations / getAppliedSeeds
  idx,               \* index of the range loop of RunMigrations / RunSeeds
  ret,               \* error about to be returned while the deferred Rollback runs
  result,            \* what the last RunMigrations / RunSeeds call returned
  tables,            \* store: committed tables
  schema_migrations, \* store: committed tracking rows, in commit order
  upEffects,         \* store: committed effects of Up scripts, in commit order
  schema_seeds,      \* store: committed seed tracking rows, in commit order
  seedEffects,       \* store: committed effects of seed actions, in commit order
  leaked,            \* transactions left open by a function that has returned
  upLog,             \* versions whose Up script the current/last run executed
  seedLog,           \* seeds whose Run action the current/last run executed
  begun,             \* versions for which the current/last run called Begin
  clean,             \* no store call of the current/last run was made to fail
  cmd,               \* position of the migrate command (main.go) of each process
  unsorted,          \* the list was not in ascending order when the current/last run was called
  rerun,             \* "armed": the last RunMigrations returned nil and nothing was
                     \* registered since; "yes": the current/last run was called so
  aborted,           \* the version at which the last RunMigrations aborted (0: none) and
                     \* the registered versions below it
  ctx,               \* the context.Context of the current/last run: "live" or "cancelled"
  cancelAt,          \* the position at which the context was cancelled ("none": not)
  entries,           \* the directory given to a FileLoader call, in the order os.ReadDir lists it
  loaded,            \* what the FileLoader call returned
  visitors,          \* RateLimiter.visitors: RemoteAddr -> the limiter of its visitor
  mu,                \* RateLimiter.mu: the request holding it, or "free"
  limiters,          \* the rate.Limiter objects created so far: their tokens
  reqs,              \* the requests going through RateLimit, each with its locals
  auth,              \* a request going through the auth middlewares
  health             \* a request going through the health handler

vars == <<migrations, seeds, pc, tx, applied, idx, ret, result, tables,
          schema_migrations, upEffects, schema_seeds, seedEffects, leaked,
          upLog, seedLog, begun, clean, cmd, unsorted, rerun, aborted, ctx, cancelAt,
          entries, loaded, visitors, mu, limiters, reqs, auth, health>>
webVars == <<visitors, mu, limiters, reqs, auth, health>>

\* ------------------------------------------------------------ error values
\* A Go error value: nil, or an error with the text fmt.Errorf wrapped around
\* it ("" when the store's error is returned as it is), the version or seed
\* name formatted into that text (-1, "" when none) and the store error
\* underneath.
\* Mutant: fmt.Errorf leaves the unit out of the text.
Err_NoUnit(wrap, version, cause) ==
  [kind |-> "err", wrap |-> wrap, version |-> -1, name |-> "", cause |-> cause]
Nil == [kind |-> "nil", wrap |-> "", version |-> -1, name |-> "", cause |-> ""]
Err(wrap, version, cause) ==
  [kind |-> "err", wrap |-> wrap, version |-> version, name |-> "", cause |-> cause]
SeedErr(wrap, name, cause) ==
  [kind |-> "err", wrap |-> wrap, version |-> -1, name |-> name, cause |-> cause]
NoResult == [kind |-> "none", wrap |-> "", version |-> -1, name |-> "", cause |-> ""]
Crashed(at) == [kind |-> "crash", wrap |-> at, version |-> -1, name |-> "", cause |-> ""]

\* ---------------------------------------------------------------- the store
\* A transaction handle: its state and the writes it holds uncommitted.
NoTx == [state |-> "none", up |-> <<>>, rows |-> <<>>, ddl |-> {},
         seedfx |-> <<>>, seedrows |-> <<>>]

\* PgxAdapter.Begin: a new open transaction with no writes.
Begin == [state |-> "open", up |-> <<>>, rows |-> <<>>, ddl |-> {},
          seedfx |-> <<>>, seedrows |-> <<>>]

\* TxAdapter.Exec of CREATE TABLE IF NOT EXISTS schema_migrations.
ExecCreateTable(t, name) == [t EXCEPT !.ddl = @ \cup {name}]

\* TxAdapter.Exec of a migration's Up script: its effect is held by the
\* transaction until Commit.
ExecUp(t, v) == [t EXCEPT !.up = Append(@, v)]

HasVersion(rows, v) == \E i \in DOMAIN rows : rows[i].version = v

\* Mutant: the tracking table has no primary key.
UniqueViolation_None(t, v) == FALSE
\* version integer PRIMARY KEY: the INSERT of a version that a committed row
\* or a row of the same transaction already holds is a unique violation.
UniqueViolation(t, v) == HasVersion(schema_migrations, v) \/ HasVersion(t.rows, v)

\* The INSERT of a version that another open transaction has inserted and not
\* yet committed waits for that transaction to end.
InsertBlocked(p, v) ==
  \E q \in Procs \ {p} : tx[q].state = "open" /\ HasVersion(tx[q].rows, v)

\* TxAdapter.Exec of INSERT INTO schema_migrations (version, description).
ExecInsert(t, v, d) ==
  [t EXCEPT !.rows = Append(@, [version |-> v, description |-> d])]

\* seed.Run(ctx, tx): the seed's action on the transaction (for a seed loaded
\* from a file, tx.Exec of the file's content).
ExecSeed(t, n) == [t EXCEPT !.seedfx = Append(@, n)]

HasName(rows, n) == \E i \in DOMAIN rows : rows[i].name = n

\* name text PRIMARY KEY.
SeedUniqueViolation(t, n) == HasName(schema_seeds, n) \/ HasName(t.seedrows, n)

SeedInsertBlocked(p, n) ==
  \E q \in Procs \ {p} : tx[q].state = "open" /\ HasName(tx[q].seedrows, n)

\* TxAdapter.Exec of INSERT INTO schema_seeds (name).
ExecSeedInsert(t, n) == [t EXCEPT !.seedrows = Append(@, [name |-> n])]

\* TxAdapter.Commit, succeeding: every write of the transaction becomes
\* durable in one step.
CommitStore(t) ==
  /\ tables' = tables \cup t.ddl
  /\ schema_migrations' = schema_migrations \o t.rows
  /\ upEffects' = upEffects \o t.up
  /\ schema_seeds' = schema_seeds \o t.seedrows
  /\ seedEffects' = seedEffects \o t.seedfx

\* The handle after a Commit that succeeded / that failed (the store has
\* aborted the transaction; pgx marks the handle closed either way).
Committed(t) == [Begin EXCEPT !.state = "committed"]
Aborted(t) == [Begin EXCEPT !.state = "rolledback"]

\* Mutant: Rollback does nothing.
Rollback_Noop(t) == [tx |-> t, err |-> "nil"]
\* TxAdapter.Rollback: an open transaction is rolled back, its writes dropped;
\* on a handle already closed by Commit or Rollback nothing happens and pgx
\* returns ErrTxClosed.
Rollback(t) ==
  IF t.state = "open"
    THEN [tx |-> Aborted(t), err |-> "nil"]
    ELSE [tx |-> t, err |-> "ErrTxClosed"]

\* Every store call takes the caller's ctx: on a cancelled context the call
\* fails before it reaches the store; on a live one the store may make it
\* succeed or fail.
\* Mutant: the store calls do not look at the context.
Outcomes_IgnoreCtx(p) == BOOLEAN
Outcomes(p) == IF ctx[p] = "cancelled" THEN {FALSE} ELSE BOOLEAN
Cause(p) == IF ctx[p] = "cancelled" THEN "canceled" ELSE "fail"

StoreUnchanged ==
  UNCHANGED <<tables, schema_migrations, upEffects, schema_seeds, seedEffects>>

\* ------------------------------------------------------------- the Manager
Range(s) == {s[i] : i \in DOMAIN s}
\* Mutant: the scan of the rows finds nothing.
AppliedVersions_None == {}
AppliedVersions == {schema_migrations[i].version : i \in DOMAIN schema_migrations}

\* sort.Slice(m.migrations, Version <): some permutation of the list that is
\* ascending in Version (sort.Slice is not stable).
IsSortedByVersion(s) == \A i, j \in DOMAIN s : i < j => s[i].Version <= s[j].Version
\* Mutant: the list is left in registration order.
SortByVersion_NoSort(ms) == {ms}
SortByVersion(ms) ==
  LET n == Len(ms)
      perms == {f \in [1..n -> 1..n] : \A i, j \in 1..n : i # j => f[i] # f[j]}
  IN {s \in {[i \in 1..n |-> ms[f[i]]] : f \in perms} : IsSortedByVersion(s)}

\* Mutant: the applied map is not consulted.
Pending_Always(mg, ap) == TRUE
\* if !applied[mg.Version]: the condition under which the loop runs a migration.
Pending(mg, ap) == mg.Version \notin ap

\* Mutant: the loop ends after the first migration it has run.
NextPending_Once(ms, ap, i) ==
  LET c == {j \in i..Len(ms) : i = 1 /\ ms[j].Version \notin ap}
  IN IF c = {} THEN 0 ELSE CHOOSE j \in c : \A k \in c : j <= k
\* Mutant: the loop runs every migration of the list.
NextPending_All(ms, ap, i) == IF i <= Len(ms) THEN i ELSE 0
\* The range loop of RunMigrations from index i on: the index of the next
\* migration to run, 0 when the loop is over.
NextPending(ms, ap, i) ==
  LET c == {j \in i..Len(ms) : Pending(ms[j], ap)}
  IN IF c = {} THEN 0 ELSE CHOOSE j \in c : \A k \in c : j <= k

NoAbort == [v |-> 0, low |-> {}]
NotLoaded == [kind |-> "none"]

\* The HTTP requests a RateLimiter is serving at the same time, and the
\* RemoteAddr values they come from.
Reqs == {"r1", "r2", "r3"}
Addrs == {"x", "y"}
\* A request that has not arrived: no local of the handler is set.
NoReq == [pc |-> "none", addr |-> "", exists |-> FALSE, limiter |-> 0,
          allowed |-> FALSE, status |-> 0, next |-> FALSE]
\* NewRateLimiter: an empty visitors map and an unlocked mutex.
NewRateLimiter ==
  /\ visitors = [a \in Addrs |-> 0]
  /\ mu = "free"
  /\ limiters = <<>>
  /\ reqs = [r \in Reqs |-> NoReq]
NoAuth == [pc |-> "none"]
NoHealth == [pc |-> "none"]
\* No HTTP request has been received.
NoRequests ==
  /\ NewRateLimiter
  /\ auth = NoAuth
  /\ health = NoHealth

\* NewManager for every process, on an empty store.
NewManager ==
  /\ migrations = [p \in Procs |-> <<>>]
  /\ seeds = [p \in Procs |-> <<>>]
  /\ pc = [p \in Procs |-> "idle"]
  /\ tx = [p \in Procs |-> NoTx]
  /\ applied = [p \in Procs |-> {}]
  /\ idx = [p \in Procs |-> 0]
  /\ ret = [p \in Procs |-> Nil]
  /\ result = [p \in Procs |-> NoResult]
  /\ tables = {}
  /\ schema_migrations = <<>>
  /\ upEffects = <<>>
  /\ schema_seeds = <<>>
  /\ seedEffects = <<>>
  /\ leaked = [p \in Procs |-> FALSE]
  /\ upLog = [p \in Procs |-> <<>>]
  /\ seedLog = [p \in Procs |-> <<>>]
  /\ begun = [p \in Procs |-> <<>>]
  /\ clean = [p \in Procs |-> TRUE]
  /\ cmd = [p \in Procs |-> "none"]
  /\ unsorted = [p \in Procs |-> FALSE]
  /\ rerun = [p \in Procs |-> "no"]
  /\ aborted = [p \in Procs |-> NoAbort]
  /\ ctx = [p \in Procs |-> "live"]
  /\ cancelAt = [p \in Procs |-> "none"]

\* No FileLoader call is part of the runs of the Manager.
Init ==
  /\ NewManager
  /\ entries = <<>>
  /\ loaded = NotLoaded
  /\ NoRequests

lists == <<migrations, seeds>>
store == <<tables, schema_migrations, upEffects, schema_seeds, seedEffects>>
hist == <<upLog, seedLog, begun, unsorted>>

\* Manager.AddMigration: append to the list.  The Manager is not safe for
\* concurrent use, so registration happens between runs.
AddMigration(p, mg) ==
  /\ pc[p] = "idle"
  /\ Len(migrations[p]) < MaxMigrations
  /\ migrations' = [migrations EXCEPT ![p] = Append(@, mg)]
  /\ rerun' = [rerun EXCEPT ![p] = "no"]
  /\ UNCHANGED <<ctx, cancelAt, seeds, pc, tx, applied, idx, ret, result, store, leaked, hist, clean,
                 aborted>>

\* Mutant: AddSeed appends to a slice it shares with the migrations.
AddSeed_ClearsMigrations(p, seed) ==
  /\ pc[p] = "idle"
  /\ Len(seeds[p]) < MaxSeeds
  /\ seeds' = [seeds EXCEPT ![p] = Append(@, seed)]
  /\ migrations' = [migrations EXCEPT ![p] = <<>>]
  /\ UNCHANGED <<ctx, cancelAt, pc, tx, applied, idx, ret, result, store, leaked, hist, clean,
                 rerun, aborted>>

\* Manager.AddSeed: append to the list.
AddSeed(p, seed) ==
  /\ pc[p] = "idle"
  /\ Len(seeds[p]) < MaxSeeds
  /\ seeds' = [seeds EXCEPT ![p] = Append(@, seed)]
  /\ UNCHANGED <<ctx, cancelAt, migrations, pc, tx, applied, idx, ret, result, store, leaked, hist, clean,
                 rerun, aborted>>

\* The versions registered on p's Manager below v.
RegisteredBelow(p, v) ==
  {migrations[p][i].Version : i \in {j \in DOMAIN migrations[p] : migrations[p][j].Version < v}}

\* RunSeeds returns e to its caller; its locals are gone.
SeedReturn(p, e) ==
  /\ pc' = [pc EXCEPT ![p] = "idle"]
  /\ result' = [result EXCEPT ![p] = e]
  /\ ret' = [ret EXCEPT ![p] = Nil]
  /\ idx' = [idx EXCEPT ![p] = 0]
  /\ applied' = [applied EXCEPT ![p] = {}]
  /\ UNCHANGED <<rerun, aborted>>

\* RunMigrations returns e to its caller; its locals are gone.
Return(p, e) ==
  /\ pc' = [pc EXCEPT ![p] = "idle"]
  /\ result' = [result EXCEPT ![p] = e]
  /\ ret' = [ret EXCEPT ![p] = Nil]
  /\ idx' = [idx EXCEPT ![p] = 0]
  /\ applied' = [applied EXCEPT ![p] = {}]
  /\ rerun' = [rerun EXCEPT ![p] =
                 IF e # Nil THEN "no" ELSE IF @ = "yes" THEN "yes" ELSE "armed"]
  /\ aborted' = [aborted EXCEPT ![p] =
                   IF e # Nil /\ idx[p] > 0
                     THEN [v |-> migrations[p][idx[p]].Version,
                           low |-> RegisteredBelow(p, migrations[p][idx[p]].Version)]
                     ELSE NoAbort]

\* The running function goes on at l.
Goto(p, l) ==
  /\ pc' = [pc EXCEPT ![p] = l]
  /\ UNCHANGED <<result, idx, applied, rerun, aborted>>

\* A store call of the running function failed with e: the function returns e,
\* which first runs its deferred Rollback (at l).
Fail(p, e, l) ==
  /\ ret' = [ret EXCEPT ![p] = e]
  /\ clean' = [clean EXCEPT ![p] = FALSE]
  /\ Goto(p, l)

\* The handle t of a function that returns goes out of scope.
DropHandle(p, t) ==
  /\ tx' = [tx EXCEPT ![p] = NoTx]
  /\ leaked' = [leaked EXCEPT ![p] = @ \/ t.state = "open"]

\* RunMigrations is called: its first statement is createMigrationsTable.
RunMigrations(p) ==
  /\ pc[p] = "idle"
  /\ pc' = [pc EXCEPT ![p] = "cmt_begin"]
  /\ result' = [result EXCEPT ![p] = NoResult]
  /\ upLog' = [upLog EXCEPT ![p] = <<>>]
  /\ begun' = [begun EXCEPT ![p] = <<>>]
  /\ clean' = [clean EXCEPT ![p] = TRUE]
  /\ unsorted' = [unsorted EXCEPT ![p] = ~IsSortedByVersion(migrations[p])]
  /\ rerun' = [rerun EXCEPT ![p] = IF @ \in {"armed", "yes"} THEN "yes" ELSE "no"]
  /\ ctx' = [ctx EXCEPT ![p] = "live"]
  /\ cancelAt' = [cancelAt EXCEPT ![p] = "none"]
  /\ UNCHANGED <<lists, tx, applied, idx, ret, store, leaked, seedLog, aborted>>

\* createMigrationsTable: m.pool.Begin(ctx).
createMigrationsTable_Begin(p) ==
  /\ pc[p] = "cmt_begin"
  /\ \E ok \in Outcomes(p) :
       IF ok
         THEN /\ tx' = [tx EXCEPT ![p] = Begin]
              /\ Goto(p, "cmt_exec")
              /\ UNCHANGED <<ret, clean>>
         ELSE /\ Return(p, Err("", -1, Cause(p)))
              /\ clean' = [clean EXCEPT ![p] = FALSE]
              /\ UNCHANGED tx
  /\ UNCHANGED <<ctx, cancelAt, lists, store, leaked, hist>>

\* createMigrationsTable: tx.Exec(CREATE TABLE IF NOT EXISTS schema_migrations).
createMigrationsTable_Exec(p) ==
  /\ pc[p] = "cmt_exec"
  /\ \E ok \in Outcomes(p) :
       IF ok
         THEN /\ tx' = [tx EXCEPT ![p] = ExecCreateTable(@, "schema_migrations")]
              /\ Goto(p, "cmt_commit")
              /\ UNCHANGED <<ret, clean>>
         ELSE /\ Fail(p, Err("", -1, Cause(p)), "cmt_defer")
              /\ UNCHANGED tx
  /\ UNCHANGED <<ctx, cancelAt, lists, store, leaked, hist>>

\* createMigrationsTable: return tx.Commit(ctx).
createMigrationsTable_Commit(p) ==
  /\ pc[p] = "cmt_commit"
  /\ \E ok \in Outcomes(p) :
       IF ok
         THEN /\ CommitStore(tx[p])
              /\ tx' = [tx EXCEPT ![p] = Committed(@)]
              /\ Goto(p, "cmt_defer")
              /\ UNCHANGED <<ret, clean>>
         ELSE /\ UNCHANGED store
              /\ tx' = [tx EXCEPT ![p] = Aborted(@)]
              /\ Fail(p, Err("", -1, Cause(p)), "cmt_defer")
  /\ UNCHANGED <<ctx, cancelAt, lists, leaked, hist>>

\* Mutant: RunMigrations drops the error of createMigrationsTable.
createMigrationsTable_Defer_GoesOn(p) ==
  /\ pc[p] = "cmt_defer"
  /\ DropHandle(p, Rollback(tx[p]).tx)
  /\ Goto(p, "query")
  /\ ret' = [ret EXCEPT ![p] = Nil]
  /\ UNCHANGED <<ctx, cancelAt, lists, store, hist, clean>>

\* createMigrationsTable: the deferred tx.Rollback(ctx) runs, its result is
\* discarded, and the function returns; on nil RunMigrations goes on.
createMigrationsTable_Defer(p) ==
  /\ pc[p] = "cmt_defer"
  /\ DropHandle(p, Rollback(tx[p]).tx)
  /\ IF ret[p] = Nil
       THEN Goto(p, "query") /\ UNCHANGED ret
       ELSE Return(p, ret[p])
  /\ UNCHANGED <<ctx, cancelAt, lists, store, hist, clean>>

\* The loop of RunMigrations continues at index i with the applied map ap: the
\* next pending migration is run, or the loop ends and RunMigrations returns nil.
Loop(p, ms, ap, i) ==
  LET j == NextPending(ms, ap, i) IN
    IF j = 0
      THEN Return(p, Nil)
      ELSE /\ pc' = [pc EXCEPT ![p] = "mig_begin"]
           /\ idx' = [idx EXCEPT ![p] = j]
           /\ applied' = [applied EXCEPT ![p] = ap]
           /\ UNCHANGED <<result, ret, rerun, aborted>>

\* RunMigrations: sort.Slice, then getAppliedMigrations (m.pool.Query and the
\* scan of its rows), then the loop head.
getAppliedMigrations(p) ==
  /\ pc[p] = "query"
  /\ \E ms \in SortByVersion(migrations[p]) :
       /\ migrations' = [migrations EXCEPT ![p] = ms]
       /\ \E ok \in Outcomes(p) :
            IF ok /\ "schema_migrations" \in tables
              THEN /\ Loop(p, ms, AppliedVersions, 1)
                   /\ UNCHANGED clean
              ELSE /\ Return(p, Err("", -1, Cause(p)))
                   /\ clean' = [clean EXCEPT ![p] = FALSE]
  /\ UNCHANGED <<ctx, cancelAt, seeds, tx, store, leaked, hist>>

\* runMigration: m.pool.Begin(ctx).
runMigration_Begin(p) ==
  /\ pc[p] = "mig_begin"
  /\ begun' = [begun EXCEPT ![p] = Append(@, migrations[p][idx[p]].Version)]
  /\ \E ok \in Outcomes(p) :
       IF ok
         THEN /\ tx' = [tx EXCEPT ![p] = Begin]
              /\ Goto(p, "mig_up")
              /\ UNCHANGED <<ret, clean>>
         ELSE /\ Return(p, Err("beginning transaction", -1, Cause(p)))
              /\ clean' = [clean EXCEPT ![p] = FALSE]
              /\ UNCHANGED tx
  /\ UNCHANGED <<ctx, cancelAt, lists, store, leaked, upLog, seedLog, unsorted>>

\* Mutant: the Up script is executed on the pool, outside the transaction, so
\* its effect is durable at once.
runMigration_Up_OnPool(p) ==
  /\ pc[p] = "mig_up"
  /\ LET mg == migrations[p][idx[p]] IN
       /\ upLog' = [upLog EXCEPT ![p] = Append(@, mg.Version)]
       /\ upEffects' = Append(upEffects, mg.Version)
       /\ Goto(p, "mig_insert")
  /\ UNCHANGED <<ctx, cancelAt, lists, tables, schema_migrations, schema_seeds, seedEffects, tx, ret,
                 clean, leaked, seedLog, begun, unsorted>>

\* runMigration: tx.Exec(ctx, migration.Up).
runMigration_Up(p) ==
  /\ pc[p] = "mig_up"
  /\ LET mg == migrations[p][idx[p]] IN
       /\ upLog' = [upLog EXCEPT ![p] = Append(@, mg.Version)]
       /\ \E ok \in Outcomes(p) :
            IF ok
              THEN /\ tx' = [tx EXCEPT ![p] = ExecUp(@, mg.Version)]
                   /\ Goto(p, "mig_insert")
                   /\ UNCHANGED <<ret, clean>>
              ELSE /\ Fail(p, Err("executing migration", mg.Version, Cause(p)), "mig_defer")
                   /\ UNCHANGED tx
  /\ UNCHANGED <<ctx, cancelAt, lists, store, leaked, seedLog, begun, unsorted>>

\* runMigration: tx.Exec(ctx, INSERT INTO schema_migrations ..., Version, Description).
runMigration_Insert(p) ==
  /\ pc[p] = "mig_insert"
  /\ LET mg == migrations[p][idx[p]] IN
       /\ ctx[p] = "cancelled" \/ ~InsertBlocked(p, mg.Version)
       /\ IF ctx[p] = "live" /\ UniqueViolation(tx[p], mg.Version)
            THEN /\ ret' = [ret EXCEPT ![p] = Err("recording migration", mg.Version, "unique")]
                 /\ Goto(p, "mig_defer")
                 /\ UNCHANGED <<tx, clean>>
            ELSE \E ok \in Outcomes(p) :
                   IF ok
                     THEN /\ tx' = [tx EXCEPT ![p] = ExecInsert(@, mg.Version, mg.Description)]
                          /\ Goto(p, "mig_commit")
                          /\ UNCHANGED <<ret, clean>>
                     ELSE /\ Fail(p, Err("recording migration", mg.Version, Cause(p)), "mig_defer")
                          /\ UNCHANGED tx
  /\ UNCHANGED <<ctx, cancelAt, lists, store, leaked, hist>>

\* runMigration: return tx.Commit(ctx).
runMigration_Commit(p) ==
  /\ pc[p] = "mig_commit"
  /\ \E ok \in Outcomes(p) :
       IF ok
         THEN /\ CommitStore(tx[p])
              /\ tx' = [tx EXCEPT ![p] = Committed(@)]
              /\ Goto(p, "mig_defer")
              /\ UNCHANGED <<ret, clean>>
         ELSE /\ UNCHANGED store
              /\ tx' = [tx EXCEPT ![p] = Aborted(@)]
              /\ Fail(p, Err("", -1, Cause(p)), "mig_defer")
  /\ UNCHANGED <<ctx, cancelAt, lists, leaked, hist>>

\* Mutant: RunMigrations drops the error of runMigration and goes on with the
\* next pending migration.
runMigration_Defer_GoesOn(p) ==
  /\ pc[p] = "mig_defer"
  /\ DropHandle(p, Rollback(tx[p]).tx)
  /\ Loop(p, migrations[p], applied[p], idx[p] + 1)
  /\ UNCHANGED <<ctx, cancelAt, lists, store, hist, clean>>

\* Mutant: on an error the run undoes the migrations it has committed.
runMigration_Defer_UndoesRun(p) ==
  /\ pc[p] = "mig_defer"
  /\ DropHandle(p, Rollback(tx[p]).tx)
  /\ IF ret[p] = Nil
       THEN Loop(p, migrations[p], applied[p], idx[p] + 1) /\ UNCHANGED store
       ELSE LET KeepRow(r) == r.version \notin Range(upLog[p])
                KeepFx(v) == v \notin Range(upLog[p])
            IN /\ Return(p, ret[p])
               /\ schema_migrations' = SelectSeq(schema_migrations, KeepRow)
               /\ upEffects' = SelectSeq(upEffects, KeepFx)
               /\ UNCHANGED <<tables, schema_seeds, seedEffects>>
  /\ UNCHANGED <<ctx, cancelAt, lists, hist, clean>>

\* runMigration: the deferred tx.Rollback(ctx) runs, its result is discarded,
\* and the function returns; on nil the loop of RunMigrations goes on, on an
\* error RunMigrations returns it.
runMigration_Defer(p) ==
  /\ pc[p] = "mig_defer"
  /\ DropHandle(p, Rollback(tx[p]).tx)
  /\ IF ret[p] = Nil
       THEN Loop(p, migrations[p], applied[p], idx[p] + 1)
       ELSE Return(p, ret[p])
  /\ UNCHANGED <<ctx, cancelAt, lists, store, hist, clean>>

\* IsSortedByPriority / SortByPriority: sort.Slice(m.seeds, Priority <).
IsSortedByPriority(s) == \A i, j \in DOMAIN s : i < j => s[i].Priority <= s[j].Priority
\* Mutant: the list is left in registration order.
SortByPriority_NoSort(ss) == {ss}
SortByPriority(ss) ==
  LET n == Len(ss)
      perms == {f \in [1..n -> 1..n] : \A i, j \in 1..n : i # j => f[i] # f[j]}
  IN {s \in {[i \in 1..n |-> ss[f[i]]] : f \in perms} : IsSortedByPriority(s)}

AppliedNames == {schema_seeds[i].name : i \in DOMAIN schema_seeds}

\* if !applied[seed.Name]
PendingSeed(seed, ap) == seed.Name \notin ap

NextPendingSeed(ss, ap, i) ==
  LET c == {j \in i..Len(ss) : PendingSeed(ss[j], ap)}
  IN IF c = {} THEN 0 ELSE CHOOSE j \in c : \A k \in c : j <= k

\* RunSeeds is called: its first statement is createSeedsTable.
RunSeeds(p) ==
  /\ pc[p] = "idle"
  /\ pc' = [pc EXCEPT ![p] = "cst_begin"]
  /\ result' = [result EXCEPT ![p] = NoResult]
  /\ seedLog' = [seedLog EXCEPT ![p] = <<>>]
  /\ clean' = [clean EXCEPT ![p] = TRUE]
  /\ ctx' = [ctx EXCEPT ![p] = "live"]
  /\ cancelAt' = [cancelAt EXCEPT ![p] = "none"]
  /\ unsorted' = [unsorted EXCEPT ![p] = ~IsSortedByPriority(seeds[p])]
  /\ UNCHANGED <<lists, tx, applied, idx, ret, store, leaked, upLog, begun,
                 rerun, aborted>>

\* createSeedsTable: m.pool.Begin(ctx).
createSeedsTable_Begin(p) ==
  /\ pc[p] = "cst_begin"
  /\ \E ok \in Outcomes(p) :
       IF ok
         THEN /\ tx' = [tx EXCEPT ![p] = Begin]
              /\ Goto(p, "cst_exec")
              /\ UNCHANGED <<ret, clean>>
         ELSE /\ SeedReturn(p, Err("", -1, Cause(p)))
              /\ clean' = [clean EXCEPT ![p] = FALSE]
              /\ UNCHANGED tx
  /\ UNCHANGED <<ctx, cancelAt, lists, store, leaked, hist>>

\* createSeedsTable: tx.Exec(CREATE TABLE IF NOT EXISTS schema_seeds).
createSeedsTable_Exec(p) ==
  /\ pc[p] = "cst_exec"
  /\ \E ok \in Outcomes(p) :
       IF ok
         THEN /\ tx' = [tx EXCEPT ![p] = ExecCreateTable(@, "schema_seeds")]
              /\ Goto(p, "cst_commit")
              /\ UNCHANGED <<ret, clean>>
         ELSE /\ Fail(p, Err("", -1, Cause(p)), "cst_defer")
              /\ UNCHANGED tx
  /\ UNCHANGED <<ctx, cancelAt, lists, store, leaked, hist>>

\* createSeedsTable: return tx.Commit(ctx).
createSeedsTable_Commit(p) ==
  /\ pc[p] = "cst_commit"
  /\ \E ok \in Outcomes(p) :
       IF ok
         THEN /\ CommitStore(tx[p])
              /\ tx' = [tx EXCEPT ![p] = Committed(@)]
              /\ Goto(p, "cst_defer")
              /\ UNCHANGED <<ret, clean>>
         ELSE /\ UNCHANGED store
              /\ tx' = [tx EXCEPT ![p] = Aborted(@)]
              /\ Fail(p, Err("", -1, Cause(p)), "cst_defer")
  /\ UNCHANGED <<ctx, cancelAt, lists, leaked, hist>>

\* createSeedsTable: the deferred tx.Rollback(ctx), then the return.
createSeedsTable_Defer(p) ==
  /\ pc[p] = "cst_defer"
  /\ DropHandle(p, Rollback(tx[p]).tx)
  /\ IF ret[p] = Nil
       THEN Goto(p, "seed_query") /\ UNCHANGED ret
       ELSE SeedReturn(p, ret[p])
  /\ UNCHANGED <<ctx, cancelAt, lists, store, hist, clean>>

\* The loop of RunSeeds continues at index i with the applied map ap.
SeedLoop(p, ss, ap, i) ==
  LET j == NextPendingSeed(ss, ap, i) IN
    IF j = 0
      THEN SeedReturn(p, Nil)
      ELSE /\ pc' = [pc EXCEPT ![p] = "seed_begin"]
           /\ idx' = [idx EXCEPT ![p] = j]
           /\ applied' = [applied EXCEPT ![p] = ap]
           /\ UNCHANGED <<result, ret, rerun, aborted>>

\* RunSeeds: sort.Slice, then getAppliedSeeds, then the loop head.
getAppliedSeeds(p) ==
  /\ pc[p] = "seed_query"
  /\ \E ss \in SortByPriority(seeds[p]) :
       /\ seeds' = [seeds EXCEPT ![p] = ss]
       /\ \E ok \in Outcomes(p) :
            IF ok /\ "schema_seeds" \in tables
              THEN /\ SeedLoop(p, ss, AppliedNames, 1)
                   /\ UNCHANGED clean
              ELSE /\ SeedReturn(p, Err("", -1, Cause(p)))
                   /\ clean' = [clean EXCEPT ![p] = FALSE]
  /\ UNCHANGED <<ctx, cancelAt, migrations, tx, store, leaked, hist>>

\* runSeed: m.pool.Begin(ctx).
runSeed_Begin(p) ==
  /\ pc[p] = "seed_begin"
  /\ \E ok \in Outcomes(p) :
       IF ok
         THEN /\ tx' = [tx EXCEPT ![p] = Begin]
              /\ Goto(p, "seed_run")
              /\ UNCHANGED <<ret, clean>>
         ELSE /\ SeedReturn(p, Err("beginning transaction", -1, Cause(p)))
              /\ clean' = [clean EXCEPT ![p] = FALSE]
              /\ UNCHANGED tx
  /\ UNCHANGED <<ctx, cancelAt, lists, store, leaked, hist>>

\* runSeed: seed.Run(ctx, tx).
runSeed_Run(p) ==
  /\ pc[p] = "seed_run"
  /\ LET seed == seeds[p][idx[p]] IN
       /\ seedLog' = [seedLog EXCEPT ![p] = Append(@, seed)]
       /\ \E ok \in Outcomes(p) :
            IF ok
              THEN /\ tx' = [tx EXCEPT ![p] = ExecSeed(@, seed.Name)]
                   /\ Goto(p, "seed_insert")
                   /\ UNCHANGED <<ret, clean>>
              ELSE /\ Fail(p, SeedErr("executing seed", seed.Name, Cause(p)), "seed_defer")
                   /\ UNCHANGED tx
  /\ UNCHANGED <<ctx, cancelAt, lists, store, leaked, upLog, begun, unsorted>>

\* runSeed: tx.Exec(ctx, INSERT INTO schema_seeds (name) VALUES ($1), seed.Name).
runSeed_Insert(p) ==
  /\ pc[p] = "seed_insert"
  /\ LET seed == seeds[p][idx[p]] IN
       /\ ctx[p] = "cancelled" \/ ~SeedInsertBlocked(p, seed.Name)
       /\ IF ctx[p] = "live" /\ SeedUniqueViolation(tx[p], seed.Name)
            THEN /\ ret' = [ret EXCEPT ![p] = SeedErr("recording seed", seed.Name, "unique")]
                 /\ Goto(p, "seed_defer")
                 /\ UNCHANGED <<tx, clean>>
            ELSE \E ok \in Outcomes(p) :
                   IF ok
                     THEN /\ tx' = [tx EXCEPT ![p] = ExecSeedInsert(@, seed.Name)]
                          /\ Goto(p, "seed_commit")
                          /\ UNCHANGED <<ret, clean>>
                     ELSE /\ Fail(p, SeedErr("recording seed", seed.Name, Cause(p)), "seed_defer")
                          /\ UNCHANGED tx
  /\ UNCHANGED <<ctx, cancelAt, lists, store, leaked, hist>>

\* runSeed: return tx.Commit(ctx).
runSeed_Commit(p) ==
  /\ pc[p] = "seed_commit"
  /\ \E ok \in Outcomes(p) :
       IF ok
         THEN /\ CommitStore(tx[p])
              /\ tx' = [tx EXCEPT ![p] = Committed(@)]
              /\ Goto(p, "seed_defer")
              /\ UNCHANGED <<ret, clean>>
         ELSE /\ UNCHANGED store
              /\ tx' = [tx EXCEPT ![p] = Aborted(@)]
              /\ Fail(p, Err("", -1, Cause(p)), "seed_defer")
  /\ UNCHANGED <<ctx, cancelAt, lists, leaked, hist>>

\* Mutant: the deferred call stores the error of Rollback in the function's
\* result.
runSeed_Defer_ReturnsRollbackErr(p) ==
  /\ pc[p] = "seed_defer"
  /\ DropHandle(p, Rollback(tx[p]).tx)
  /\ IF ret[p] = Nil /\ Rollback(tx[p]).err = "nil"
       THEN SeedLoop(p, seeds[p], applied[p], idx[p] + 1)
       ELSE SeedReturn(p, IF ret[p] = Nil THEN Err("", -1, Rollback(tx[p]).err) ELSE ret[p])
  /\ UNCHANGED <<ctx, cancelAt, lists, store, hist, clean>>

\* Mutant: RunSeeds drops the error of runSeed and goes on with the next
\* pending seed.
runSeed_Defer_GoesOn(p) ==
  /\ pc[p] = "seed_defer"
  /\ DropHandle(p, Rollback(tx[p]).tx)
  /\ SeedLoop(p, seeds[p], applied[p], idx[p] + 1)
  /\ UNCHANGED <<ctx, cancelAt, lists, store, hist, clean>>

\* runSeed: the deferred tx.Rollback(ctx), then the return.
runSeed_Defer(p) ==
  /\ pc[p] = "seed_defer"
  /\ DropHandle(p, Rollback(tx[p]).tx)
  /\ IF ret[p] = Nil
       THEN SeedLoop(p, seeds[p], applied[p], idx[p] + 1)
       ELSE SeedReturn(p, ret[p])
  /\ UNCHANGED <<ctx, cancelAt, lists, store, hist, clean>>

\* The process dies between two store calls: the store aborts the transaction
\* of the lost connection, and a restarted process builds a new Manager.
Crash(p) ==
  /\ pc[p] # "idle"
  /\ pc' = [pc EXCEPT ![p] = "idle"]
  /\ result' = [result EXCEPT ![p] = Crashed(pc[p])]
  /\ tx' = [tx EXCEPT ![p] = NoTx]
  /\ migrations' = [migrations EXCEPT ![p] = <<>>]
  /\ seeds' = [seeds EXCEPT ![p] = <<>>]
  /\ ret' = [ret EXCEPT ![p] = Nil]
  /\ idx' = [idx EXCEPT ![p] = 0]
  /\ applied' = [applied EXCEPT ![p] = {}]
  /\ clean' = [clean EXCEPT ![p] = FALSE]
  /\ rerun' = [rerun EXCEPT ![p] = "no"]
  /\ aborted' = [aborted EXCEPT ![p] = NoAbort]
  /\ UNCHANGED <<ctx, cancelAt, store, leaked, hist>>

\* The caller cancels the context of the running call, between two store calls.
Cancel(p) ==
  /\ pc[p] # "idle"
  /\ ctx[p] = "live"
  /\ ctx' = [ctx EXCEPT ![p] = "cancelled"]
  /\ cancelAt' = [cancelAt EXCEPT ![p] = pc[p]]
  /\ UNCHANGED <<lists, pc, tx, applied, idx, ret, result, store, leaked, hist, clean,
                 cmd, rerun, aborted>>

\* The steps of a RunMigrations call.
Run(p) ==
  \/ RunMigrations(p)
  \/ createMigrationsTable_Begin(p)
  \/ createMigrationsTable_Exec(p)
  \/ createMigrationsTable_Commit(p)
  \/ createMigrationsTable_Defer(p)
  \/ getAppliedMigrations(p)
  \/ runMigration_Begin(p)
  \/ runMigration_Up(p)
  \/ runMigration_Insert(p)
  \/ runMigration_Commit(p)
  \/ runMigration_Defer(p)

\* The steps of a RunSeeds call.
RunS(p) ==
  \/ RunSeeds(p)
  \/ createSeedsTable_Begin(p)
  \/ createSeedsTable_Exec(p)
  \/ createSeedsTable_Commit(p)
  \/ createSeedsTable_Defer(p)
  \/ getAppliedSeeds(p)
  \/ runSeed_Begin(p)
  \/ runSeed_Run(p)
  \/ runSeed_Insert(p)
  \/ runSeed_Commit(p)
  \/ runSeed_Defer(p)

\* One Manager on the store, its migration pipeline.
Next ==
  /\ \/ \E mg \in Migration : AddMigration("p1", mg)
     \/ Run("p1")
     \/ Crash("p1")
  /\ UNCHANGED <<cmd, entries, loaded, webVars>>
Spec == Init /\ [][Next]_vars

\* One Manager on the store, its seed pipeline.
NextSeeds ==
  /\ \/ \E seed \in Seed : AddSeed("p1", seed)
     \/ RunS("p1")
     \/ Crash("p1")
  /\ UNCHANGED <<cmd, entries, loaded, webVars>>
SpecSeeds == Init /\ [][NextSeeds]_vars

\* One Manager on the store used through its whole API: both lists are
\* registered and both pipelines run, in any order.
MaxLibVersion == 2
MaxLibMigrations == 2
MaxLibPriority == 2
MaxLibSeeds == 2
NextLib ==
  /\ \/ \E mg \in [Version : 1..MaxLibVersion, Description : Descriptions] :
          Len(migrations["p1"]) < MaxLibMigrations /\ AddMigration("p1", mg)
     \/ \E seed \in [Name : {"a", "b"}, Priority : 1..MaxLibPriority] :
          Len(seeds["p1"]) < MaxLibSeeds /\ AddSeed("p1", seed)
     \/ Run("p1")
     \/ RunS("p1")
  /\ UNCHANGED <<cmd, entries, loaded, webVars>>
SpecLib == Init /\ [][NextLib]_vars

\* One Manager on the store on which one of the two lists is registered, with
\* versions or names that may repeat, and both pipelines run in any order.
MaxDupPriority == 2
NextDup ==
  /\ \/ \E mg \in Migration : seeds["p1"] = <<>> /\ AddMigration("p1", mg)
     \/ \E seed \in [Name : {"a", "b"}, Priority : 1..MaxDupPriority] :
          migrations["p1"] = <<>> /\ AddSeed("p1", seed)
     \/ Run("p1")
     \/ RunS("p1")
  /\ UNCHANGED <<cmd, entries, loaded, webVars>>
SpecDup == Init /\ [][NextDup]_vars

\* One Manager on the store, its migration pipeline, with a caller that may
\* cancel the context of a run.
NextCancel ==
  \/ Next
  \/ Cancel("p1") /\ UNCHANGED <<entries, loaded, webVars>>
SpecCancel == Init /\ [][NextCancel]_vars

\* ------------------------------------------------------ the FileLoader
\* File names are sequences of characters, so that what strings.Split,
\* strings.TrimSuffix, strings.HasSuffix, strings.Join and strconv.Atoi do to
\* them is computed.
Digits == {"0", "1", "2", "3", "4", "5", "6", "7", "8", "9"}
DigitVal(c) ==
  CASE c = "0" -> 0 [] c = "1" -> 1 [] c = "2" -> 2 [] c = "3" -> 3 [] c = "4" -> 4
    [] c = "5" -> 5 [] c = "6" -> 6 [] c = "7" -> 7 [] c = "8" -> 8 [] c = "9" -> 9

RECURSIVE Decimal(_)
Decimal(s) ==
  IF s = <<>> THEN 0 ELSE 10 * Decimal(SubSeq(s, 1, Len(s) - 1)) + DigitVal(s[Len(s)])

\* strconv.Atoi: an optional sign, then one or more decimal digits.
Atoi(s) ==
  LET signed == s # <<>> /\ s[1] \in {"+", "-"}
      body == IF signed THEN Tail(s) ELSE s
  IN IF body = <<>> \/ \E i \in DOMAIN body : body[i] \notin Digits
       THEN [err |-> TRUE, n |-> 0]
       ELSE [err |-> FALSE,
             n |-> IF signed /\ s[1] = "-" THEN 0 - Decimal(body) ELSE Decimal(body)]

HasSuffix(s, suffix) ==
  /\ Len(s) >= Len(suffix)
  /\ SubSeq(s, Len(s) - Len(suffix) + 1, Len(s)) = suffix

TrimSuffix(s, suffix) ==
  IF HasSuffix(s, suffix) THEN SubSeq(s, 1, Len(s) - Len(suffix)) ELSE s

\* strings.Split on a one-character separator: n separators give n+1 parts,
\* empty parts included.
RECURSIVE Split(_, _)
Split(s, sep) ==
  LET hits == {i \in DOMAIN s : s[i] = sep}
  IN IF hits = {} THEN <<s>>
     ELSE LET i == CHOOSE h \in hits : \A k \in hits : h <= k
          IN <<SubSeq(s, 1, i - 1)>> \o Split(SubSeq(s, i + 1, Len(s)), sep)

RECURSIVE Join(_, _)
Join(parts, sep) ==
  IF parts = <<>> THEN <<>>
  ELSE IF Len(parts) = 1 THEN parts[1]
  ELSE parts[1] \o <<sep>> \o Join(Tail(parts), sep)

DotSql == <<".", "s", "q", "l">>

\* The files a directory may hold.
UpInit == [name |-> <<"0", "0", "1", "_", "i", "n", "i", "t", "_", "u", "p", ".", "s", "q", "l">>,
  content |-> "CREATE"]   \* 001_init_up.sql
DownInit == [name |-> <<"0", "0", "1", "_", "i", "n", "i", "t", "_", "d", "o", "w", "n", ".", "s", "q", "l">>,
  content |-> "DROP"]   \* 001_init_down.sql
UpAB == [name |-> <<"2", "_", "a", "_", "b", "_", "u", "p", ".", "s", "q", "l">>,
  content |-> "UP2"]   \* 2_a_b_up.sql
DownOther == [name |-> <<"0", "1", "_", "o", "t", "h", "e", "r", "_", "d", "o", "w", "n", ".", "s", "q", "l">>,
  content |-> "DROP-OTHER"]   \* 01_other_down.sql
BadVersion == [name |-> <<"x", "_", "i", "n", "i", "t", "_", "u", "p", ".", "s", "q", "l">>,
  content |-> "X"]   \* x_init_up.sql
TwoParts == [name |-> <<"0", "0", "1", "_", "u", "p", ".", "s", "q", "l">>,
  content |-> "SHORT"]   \* 001_up.sql
OnePart == [name |-> <<"2", ".", "s", "q", "l">>,
  content |-> "ONE"]   \* 2.sql
Readme == [name |-> <<"r", "e", "a", "d", "m", "e", ".", "m", "d">>,
  content |-> "TEXT"]   \* readme.md
Files == {UpInit, DownInit, UpAB, DownOther, BadVersion, TwoParts, OnePart, Readme}

\* What os.ReadDir may list: distinct files.  The order is left open.
MaxDirFiles == 3
Dirs ==
  {d \in UNION {[1..n -> Files] : n \in 0..MaxDirFiles} :
     \A i, j \in DOMAIN d : i # j => d[i] # d[j]}

\* Mutant: every file makes a new Migration, whatever the map holds.
MergeFile_Overwrite(m, version, description, isUp, content) ==
  LET migration == [Version |-> version, Description |-> description, Up |-> "", Down |-> ""]
      updated == IF isUp THEN [migration EXCEPT !.Up = content]
                 ELSE [migration EXCEPT !.Down = content]
  IN [v \in DOMAIN m \cup {version} |-> IF v = version THEN updated ELSE m[v]]

\* The map update of LoadMigrationsFromDir: the entry of the version is taken
\* from the map, or made with the description of this file; the content goes
\* to Up or Down; the entry is stored back.
MergeFile(m, version, description, isUp, content) ==
  LET migration == IF version \in DOMAIN m THEN m[version]
                   ELSE [Version |-> version, Description |-> description,
                         Up |-> "", Down |-> ""]
      updated == IF isUp THEN [migration EXCEPT !.Up = content]
                 ELSE [migration EXCEPT !.Down = content]
  IN [v \in DOMAIN m \cup {version} |-> IF v = version THEN updated ELSE m[v]]

NoFile == <<>>
LoadErr(text, name) == [err |-> text, file |-> name]
NoLoadErr == LoadErr("", NoFile)

\* The body of the loop of LoadMigrationsFromDir for one .sql file.
LoadMigrationEntry(m, entry) ==
  LET parts == Split(TrimSuffix(entry.name, DotSql), "_")
      version == Atoi(parts[1])
  IN IF Len(parts) < 3
       THEN [err |-> LoadErr("invalid migration filename", entry.name), migrations |-> m]
     ELSE IF version.err
       THEN [err |-> LoadErr("invalid version in filename", entry.name), migrations |-> m]
     ELSE LET isUp == HasSuffix(parts[Len(parts)], <<"u", "p">>)
              description == Join(SubSeq(parts, 2, Len(parts) - 1), "_")
          IN [err |-> NoLoadErr,
              migrations |-> MergeFile(m, version.n, description, isUp, entry.content)]

\* The loop of LoadMigrationsFromDir from entry i on, with the map m.
RECURSIVE LoadMigrationsFrom(_, _, _)
LoadMigrationsFrom(dir, i, m) ==
  IF i > Len(dir) THEN [err |-> NoLoadErr, migrations |-> m]
  ELSE IF ~HasSuffix(dir[i].name, DotSql) THEN LoadMigrationsFrom(dir, i + 1, m)
  ELSE LET r == LoadMigrationEntry(m, dir[i])
       IN IF r.err # NoLoadErr THEN r ELSE LoadMigrationsFrom(dir, i + 1, r.migrations)

\* The slices a range over the map can build: its values in any order.
MapOrders(m) ==
  {[i \in DOMAIN f |-> m[f[i]]] :
     f \in {g \in [1..Cardinality(DOMAIN m) -> DOMAIN m] :
              \A i, j \in DOMAIN g : i # j => g[i] # g[j]}}

\* FileLoader.LoadMigrationsFromDir: what it can return for a directory.
LoadMigrationsFromDir(dir) ==
  LET r == LoadMigrationsFrom(dir, 1, <<>>)
  IN IF r.err # NoLoadErr
       THEN {[kind |-> "migrations", err |-> r.err, migrations |-> <<>>]}
       ELSE {[kind |-> "migrations", err |-> NoLoadErr, migrations |-> ms] :
               ms \in MapOrders(r.migrations)}

\* The loop of LoadSeedsFromDir from entry i on, with the slice built so far.
\* Run is the content of the file, which the Seed executes on its transaction.
RECURSIVE LoadSeedsFrom(_, _, _)
LoadSeedsFrom(dir, i, ss) ==
  IF i > Len(dir) THEN [kind |-> "seeds", err |-> NoLoadErr, seeds |-> ss]
  ELSE IF ~HasSuffix(dir[i].name, DotSql) THEN LoadSeedsFrom(dir, i + 1, ss)
  ELSE LET parts == Split(TrimSuffix(dir[i].name, DotSql), "_")
           priority == Atoi(parts[1])
       IN IF Len(parts) < 2
            THEN [kind |-> "seeds", err |-> LoadErr("invalid seed filename", dir[i].name),
                  seeds |-> <<>>]
          ELSE IF priority.err
            THEN [kind |-> "seeds", err |-> LoadErr("invalid priority in filename", dir[i].name),
                  seeds |-> <<>>]
          ELSE LoadSeedsFrom(dir, i + 1,
                 Append(ss, [Name |-> Join(Tail(parts), "_"), Priority |-> priority.n,
                             Run |-> dir[i].content]))

\* FileLoader.LoadSeedsFromDir.
LoadSeedsFromDir(dir) == LoadSeedsFrom(dir, 1, <<>>)

managerVars == <<migrations, seeds, pc, tx, applied, idx, ret, result, tables,
                 schema_migrations, upEffects, schema_seeds, seedEffects, leaked,
                 upLog, seedLog, begun, clean, cmd, unsorted, rerun, aborted, ctx, cancelAt>>

\* A call of LoadMigrationsFromDir on the directory.
LoadMigrations ==
  /\ loaded = NotLoaded
  /\ loaded' \in LoadMigrationsFromDir(entries)
  /\ UNCHANGED <<entries, managerVars, webVars>>

\* A call of LoadSeedsFromDir on the directory.
LoadSeeds ==
  /\ loaded = NotLoaded
  /\ loaded' = LoadSeedsFromDir(entries)
  /\ UNCHANGED <<entries, managerVars, webVars>>

\* A FileLoader called on any directory.
InitLoader ==
  /\ NewManager
  /\ entries \in Dirs
  /\ loaded = NotLoaded
  /\ NoRequests
NextLoader ==
  \/ LoadMigrations
  \/ LoadSeeds
SpecLoader == InitLoader /\ [][NextLoader]_vars

\* ------------------------------------------------- the migrate command
\* What LoadMigrationsFromDir can return: one Migration per version, in the
\* order of a map iteration (any order).
LoadedMigrations ==
  {ms \in UNION {[1..n -> Migration] : n \in 0..MaxMigrations} :
     \A i, j \in DOMAIN ms : i # j => ms[i].Version # ms[j].Version}

\* What LoadSeedsFromDir can return: one Seed per file.
MaxLoadedSeeds == 2
MaxLoadedPriority == 2
LoadedSeeds ==
  {ss \in UNION {[1..n -> [Name : {"a", "b"}, Priority : 1..MaxLoadedPriority]] :
                   n \in 0..MaxLoadedSeeds} :
     \A i, j \in DOMAIN ss : i # j => ss[i] # ss[j]}

\* runMigrations of main.go: the files are loaded and every Migration and Seed
\* is registered on a new Manager.  Nothing has run yet in this process.
main_Load(p) ==
  /\ cmd[p] = "none"
  /\ pc[p] = "idle"
  /\ \E ms \in LoadedMigrations, ss \in LoadedSeeds :
       /\ migrations' = [migrations EXCEPT ![p] = ms]
       /\ seeds' = [seeds EXCEPT ![p] = ss]
  /\ cmd' = [cmd EXCEPT ![p] = "loaded"]
  /\ result' = [result EXCEPT ![p] = NoResult]
  /\ upLog' = [upLog EXCEPT ![p] = <<>>]
  /\ seedLog' = [seedLog EXCEPT ![p] = <<>>]
  /\ begun' = [begun EXCEPT ![p] = <<>>]
  /\ clean' = [clean EXCEPT ![p] = TRUE]
  /\ unsorted' = [unsorted EXCEPT ![p] = FALSE]
  /\ UNCHANGED <<ctx, cancelAt, pc, tx, applied, idx, ret, store, leaked, rerun, aborted>>

\* log.Fatal("loading migrations:", err) / log.Fatal("loading seeds:", err).
Fatal(wrap, cause) ==
  [kind |-> "fatal", wrap |-> wrap, version |-> -1, name |-> "", cause |-> cause]

\* The load errors of the command: LoadMigrationsFromDir fails on the
\* migrations directory, or it succeeds and LoadSeedsFromDir fails on the
\* seeds directory.
LoadErrors ==
  {Fatal("loading migrations:", r.err.err) :
     r \in {x \in UNION {LoadMigrationsFromDir(d) : d \in Dirs} : x.err # NoLoadErr}}
  \cup
  {Fatal("loading seeds:", r.err.err) :
     r \in {x \in {LoadSeedsFromDir(d) : d \in Dirs} : x.err # NoLoadErr}}

\* Mutant: the seeds directory is loaded after RunMigrations has returned.
main_LoadError_Late(p) ==
  /\ cmd[p] = "migrating"
  /\ pc[p] = "idle"
  /\ result[p] = Nil
  /\ \E e \in LoadErrors : result' = [result EXCEPT ![p] = e]
  /\ cmd' = [cmd EXCEPT ![p] = "none"]
  /\ migrations' = [migrations EXCEPT ![p] = <<>>]
  /\ seeds' = [seeds EXCEPT ![p] = <<>>]
  /\ rerun' = [rerun EXCEPT ![p] = "no"]
  /\ aborted' = [aborted EXCEPT ![p] = NoAbort]
  /\ UNCHANGED <<ctx, cancelAt, pc, tx, applied, idx, ret, store, leaked, hist, clean>>

\* runMigrations of main.go: a loader call returns an error and log.Fatal ends
\* the process, before NewManager is reached.  Nothing has run in this process.
main_LoadError(p) ==
  /\ cmd[p] = "none"
  /\ pc[p] = "idle"
  /\ \E e \in LoadErrors : result' = [result EXCEPT ![p] = e]
  /\ upLog' = [upLog EXCEPT ![p] = <<>>]
  /\ seedLog' = [seedLog EXCEPT ![p] = <<>>]
  /\ begun' = [begun EXCEPT ![p] = <<>>]
  /\ clean' = [clean EXCEPT ![p] = TRUE]
  /\ unsorted' = [unsorted EXCEPT ![p] = FALSE]
  /\ UNCHANGED <<ctx, cancelAt, lists, cmd, pc, tx, applied, idx, ret, store, leaked, rerun,
                 aborted>>

\* main.go: manager.RunMigrations(ctx).
main_RunMigrations(p) ==
  /\ cmd[p] = "loaded"
  /\ RunMigrations(p)
  /\ cmd' = [cmd EXCEPT ![p] = "migrating"]

\* Mutant: RunSeeds is called whatever RunMigrations returned.
main_RunSeeds_Always(p) ==
  /\ cmd[p] = "migrating"
  /\ RunSeeds(p)
  /\ cmd' = [cmd EXCEPT ![p] = "seeding"]

\* main.go: RunMigrations returned nil: manager.RunSeeds(ctx).
main_RunSeeds(p) ==
  /\ cmd[p] = "migrating"
  /\ result[p] = Nil
  /\ RunSeeds(p)
  /\ cmd' = [cmd EXCEPT ![p] = "seeding"]

\* main.go: log.Fatal on an error of either run, or the end of the command
\* after both returned nil: the process is over, its Manager with it.
main_Exit(p) ==
  /\ cmd[p] \in {"migrating", "seeding"}
  /\ pc[p] = "idle"
  /\ result[p].kind = "err" \/ (cmd[p] = "seeding" /\ result[p] = Nil)
  /\ cmd' = [cmd EXCEPT ![p] = "none"]
  /\ migrations' = [migrations EXCEPT ![p] = <<>>]
  /\ seeds' = [seeds EXCEPT ![p] = <<>>]
  /\ rerun' = [rerun EXCEPT ![p] = "no"]
  /\ aborted' = [aborted EXCEPT ![p] = NoAbort]
  /\ UNCHANGED <<ctx, cancelAt, pc, tx, applied, idx, ret, result, store, leaked, hist, clean>>

\* The calls of RunMigrations / RunSeeds are main's; the steps inside them are
\* the Manager's.
InRun(p) ==
  \/ createMigrationsTable_Begin(p)
  \/ createMigrationsTable_Exec(p)
  \/ createMigrationsTable_Commit(p)
  \/ createMigrationsTable_Defer(p)
  \/ getAppliedMigrations(p)
  \/ runMigration_Begin(p)
  \/ runMigration_Up(p)
  \/ runMigration_Insert(p)
  \/ runMigration_Commit(p)
  \/ runMigration_Defer(p)
  \/ createSeedsTable_Begin(p)
  \/ createSeedsTable_Exec(p)
  \/ createSeedsTable_Commit(p)
  \/ createSeedsTable_Defer(p)
  \/ getAppliedSeeds(p)
  \/ runSeed_Begin(p)
  \/ runSeed_Run(p)
  \/ runSeed_Insert(p)
  \/ runSeed_Commit(p)
  \/ runSeed_Defer(p)

NextCmd ==
  /\ \/ main_Load("p1")
     \/ main_LoadError("p1")
     \/ main_RunMigrations("p1")
     \/ main_RunSeeds("p1")
     \/ main_Exit("p1")
     \/ InRun("p1") /\ UNCHANGED cmd
     \/ Crash("p1") /\ cmd' = [cmd EXCEPT !["p1"] = "none"]
  /\ UNCHANGED <<entries, loaded, webVars>>
SpecCmd == Init /\ [][NextCmd]_vars

\* Two processes on the same store, each with its own Manager, on which the
\* migrations have been registered (by AddMigration calls) before the runs.
MaxConcVersion == 2
MaxConcMigrations == 2
ConcLists ==
  UNION {[1..n -> [Version : 1..MaxConcVersion, Description : Descriptions]] :
           n \in 1..MaxConcMigrations}
InitConc ==
  /\ migrations \in [Procs -> ConcLists]
  /\ seeds = [p \in Procs |-> <<>>]
  /\ pc = [p \in Procs |-> "idle"]
  /\ tx = [p \in Procs |-> NoTx]
  /\ applied = [p \in Procs |-> {}]
  /\ idx = [p \in Procs |-> 0]
  /\ ret = [p \in Procs |-> Nil]
  /\ result = [p \in Procs |-> NoResult]
  /\ tables = {}
  /\ schema_migrations = <<>>
  /\ upEffects = <<>>
  /\ schema_seeds = <<>>
  /\ seedEffects = <<>>
  /\ leaked = [p \in Procs |-> FALSE]
  /\ upLog = [p \in Procs |-> <<>>]
  /\ seedLog = [p \in Procs |-> <<>>]
  /\ begun = [p \in Procs |-> <<>>]
  /\ clean = [p \in Procs |-> TRUE]
  /\ cmd = [p \in Procs |-> "none"]
  /\ unsorted = [p \in Procs |-> FALSE]
  /\ rerun = [p \in Procs |-> "no"]
  /\ aborted = [p \in Procs |-> NoAbort]
  /\ ctx = [p \in Procs |-> "live"]
  /\ cancelAt = [p \in Procs |-> "none"]
  /\ entries = <<>>
  /\ loaded = NotLoaded
  /\ NoRequests
NextConc ==
  /\ \/ \E p \in Procs : RunMigrations(p)
     \/ \E p \in Procs : createMigrationsTable_Begin(p)
     \/ \E p \in Procs : createMigrationsTable_Exec(p)
     \/ \E p \in Procs : createMigrationsTable_Commit(p)
     \/ \E p \in Procs : createMigrationsTable_Defer(p)
     \/ \E p \in Procs : getAppliedMigrations(p)
     \/ \E p \in Procs : runMigration_Begin(p)
     \/ \E p \in Procs : runMigration_Up(p)
     \/ \E p \in Procs : runMigration_Insert(p)
     \/ \E p \in Procs : runMigration_Commit(p)
     \/ \E p \in Procs : runMigration_Defer(p)
     \/ \E p \in Procs : Crash(p)
  /\ UNCHANGED <<cmd, entries, loaded, webVars>>
SpecConc == InitConc /\ [][NextConc]_vars

\* Two migrate commands started at the same time against the same store, each
\* with the files it has loaded and registered.
MaxCmdConcVersion == 2
MaxCmdConcSeeds == 2
CmdConcMigrations == [1..1 -> [Version : 1..MaxCmdConcVersion, Description : Descriptions]]
CmdConcSeeds ==
  UNION {[1..n -> [Name : {"a", "b"}, Priority : {1}]] : n \in 1..MaxCmdConcSeeds}
InitCmdConc ==
  /\ migrations \in [Procs -> CmdConcMigrations]
  /\ seeds \in [Procs -> CmdConcSeeds]
  /\ pc = [p \in Procs |-> "idle"]
  /\ tx = [p \in Procs |-> NoTx]
  /\ applied = [p \in Procs |-> {}]
  /\ idx = [p \in Procs |-> 0]
  /\ ret = [p \in Procs |-> Nil]
  /\ result = [p \in Procs |-> NoResult]
  /\ tables = {}
  /\ schema_migrations = <<>>
  /\ upEffects = <<>>
  /\ schema_seeds = <<>>
  /\ seedEffects = <<>>
  /\ leaked = [p \in Procs |-> FALSE]
  /\ upLog = [p \in Procs |-> <<>>]
  /\ seedLog = [p \in Procs |-> <<>>]
  /\ begun = [p \in Procs |-> <<>>]
  /\ clean = [p \in Procs |-> TRUE]
  /\ cmd = [p \in Procs |-> "loaded"]
  /\ unsorted = [p \in Procs |-> FALSE]
  /\ rerun = [p \in Procs |-> "no"]
  /\ aborted = [p \in Procs |-> NoAbort]
  /\ ctx = [p \in Procs |-> "live"]
  /\ cancelAt = [p \in Procs |-> "none"]
  /\ entries = <<>>
  /\ loaded = NotLoaded
  /\ NoRequests
NextCmdConc ==
  /\ \/ \E p \in Procs : main_RunMigrations(p)
     \/ \E p \in Procs : main_RunSeeds(p)
     \/ \E p \in Procs : main_Exit(p)
     \/ \E p \in Procs : InRun(p) /\ UNCHANGED cmd
  /\ UNCHANGED <<entries, loaded, webVars>>
SpecCmdConc == InitCmdConc /\ [][NextCmdConc]_vars

\* ------------------------------------------------------ the RateLimiter
\* rl.burst: the tokens of a new limiter.  MaxLimiters bounds the limiters the
\* model lets the RateLimiter create.
Burst == 2
MaxLimiters == 3

rateFrame == <<managerVars, entries, loaded, auth, health>>

\* A request from RemoteAddr a reaches the handler of RateLimit; its first
\* statement is rl.getVisitor(r.RemoteAddr).
RateLimit(r, a) ==
  /\ reqs[r].pc \in {"none", "done"}
  /\ reqs' = [reqs EXCEPT ![r] = [NoReq EXCEPT !.pc = "lock", !.addr = a]]
  /\ UNCHANGED <<visitors, mu, limiters, rateFrame>>

\* Mutant: getVisitor does not take the mutex.
getVisitor_Lock_NoMutex(r) ==
  /\ reqs[r].pc = "lock"
  /\ reqs' = [reqs EXCEPT ![r].pc = "lookup"]
  /\ UNCHANGED <<mu, visitors, limiters, rateFrame>>

\* getVisitor: rl.mu.Lock() returns when no other request holds the mutex.
getVisitor_Lock(r) ==
  /\ reqs[r].pc = "lock"
  /\ mu = "free"
  /\ mu' = r
  /\ reqs' = [reqs EXCEPT ![r].pc = "lookup"]
  /\ UNCHANGED <<visitors, limiters, rateFrame>>

\* getVisitor: v, exists := rl.visitors[ip].
getVisitor_Lookup(r) ==
  /\ reqs[r].pc = "lookup"
  /\ reqs' = [reqs EXCEPT ![r].exists = visitors[reqs[r].addr] # 0,
                          ![r].pc = IF visitors[reqs[r].addr] # 0 THEN "found" ELSE "create"]
  /\ UNCHANGED <<mu, visitors, limiters, rateFrame>>

\* getVisitor, !exists: rate.NewLimiter, rl.visitors[ip] = &visitor{...},
\* return limiter.
getVisitor_Create(r) ==
  /\ reqs[r].pc = "create"
  /\ Len(limiters) < MaxLimiters
  /\ limiters' = Append(limiters, Burst)
  /\ visitors' = [visitors EXCEPT ![reqs[r].addr] = Len(limiters) + 1]
  /\ reqs' = [reqs EXCEPT ![r].limiter = Len(limiters) + 1, ![r].pc = "unlock"]
  /\ UNCHANGED <<mu, rateFrame>>

\* getVisitor, exists: v.lastSeen = time.Now(); return v.limiter.
getVisitor_Found(r) ==
  /\ reqs[r].pc = "found"
  /\ reqs' = [reqs EXCEPT ![r].limiter = visitors[reqs[r].addr], ![r].pc = "unlock"]
  /\ UNCHANGED <<mu, visitors, limiters, rateFrame>>

\* getVisitor: the deferred rl.mu.Unlock().
getVisitor_Unlock(r) ==
  /\ reqs[r].pc = "unlock"
  /\ mu' = "free"
  /\ reqs' = [reqs EXCEPT ![r].pc = "allow"]
  /\ UNCHANGED <<visitors, limiters, rateFrame>>

\* rate.Limiter.Allow on the limiter getVisitor returned: one token is taken
\* when there is one (the limiter is safe for concurrent use).
Allow(r) ==
  /\ reqs[r].pc = "allow"
  /\ LET l == reqs[r].limiter IN
       IF limiters[l] > 0
         THEN /\ limiters' = [limiters EXCEPT ![l] = @ - 1]
              /\ reqs' = [reqs EXCEPT ![r].allowed = TRUE, ![r].pc = "respond"]
         ELSE /\ reqs' = [reqs EXCEPT ![r].allowed = FALSE, ![r].pc = "respond"]
              /\ UNCHANGED limiters
  /\ UNCHANGED <<mu, visitors, rateFrame>>

\* Mutant: the handler goes on to next after it has answered 429.
Respond_NoReturn(r) ==
  /\ reqs[r].pc = "respond"
  /\ reqs' = [reqs EXCEPT ![r].status = IF reqs[r].allowed THEN 200 ELSE 429,
                          ![r].next = TRUE,
                          ![r].pc = "done"]
  /\ UNCHANGED <<mu, visitors, limiters, rateFrame>>

\* RateLimit: if !Allow() { http.Error(w, ..., 429); return }; next.ServeHTTP.
Respond(r) ==
  /\ reqs[r].pc = "respond"
  /\ reqs' = [reqs EXCEPT ![r].status = IF reqs[r].allowed THEN 200 ELSE 429,
                          ![r].next = reqs[r].allowed,
                          ![r].pc = "done"]
  /\ UNCHANGED <<mu, visitors, limiters, rateFrame>>

\* Time passes: a limiter below its burst gains a token.
Refill(l) ==
  /\ limiters[l] < Burst
  /\ limiters' = [limiters EXCEPT ![l] = @ + 1]
  /\ UNCHANGED <<mu, visitors, reqs, rateFrame>>

\* One RateLimiter serving concurrent requests.
NextRate ==
  \/ \E r \in Reqs, a \in Addrs : RateLimit(r, a)
  \/ \E r \in Reqs : getVisitor_Lock(r)
  \/ \E r \in Reqs : getVisitor_Lookup(r)
  \/ \E r \in Reqs : getVisitor_Create(r)
  \/ \E r \in Reqs : getVisitor_Found(r)
  \/ \E r \in Reqs : getVisitor_Unlock(r)
  \/ \E r \in Reqs : Allow(r)
  \/ \E r \in Reqs : Respond(r)
  \/ \E l \in DOMAIN limiters : Refill(l)
SpecRate == Init /\ [][NextRate]_vars

\* ------------------------------------------------- the auth middlewares
\* strings.ToLower, on the letters A-Z.
ToLowerChar(c) ==
  CASE c = "A" -> "a" []
       c = "B" -> "b" []
       c = "C" -> "c" []
       c = "D" -> "d" []
       c = "E" -> "e" []
       c = "F" -> "f" []
       c = "G" -> "g" []
       c = "H" -> "h" []
       c = "I" -> "i" []
       c = "J" -> "j" []
       c = "K" -> "k" []
       c = "L" -> "l" []
       c = "M" -> "m" []
       c = "N" -> "n" []
       c = "O" -> "o" []
       c = "P" -> "p" []
       c = "Q" -> "q" []
       c = "R" -> "r" []
       c = "S" -> "s" []
       c = "T" -> "t" []
       c = "U" -> "u" []
       c = "V" -> "v" []
       c = "W" -> "w" []
       c = "X" -> "x" []
       c = "Y" -> "y" []
       c = "Z" -> "z" []
       OTHER -> c
ToLower(str) == [i \in DOMAIN str |-> ToLowerChar(str[i])]

\* The values of the Authorization header (r.Header.Get gives "" when the
\* request has none).
NoHeader == <<>>   \* ""
BearerG == <<"B", "e", "a", "r", "e", "r", " ", "g">>   \* "Bearer g"
LowerBearerG == <<"b", "e", "a", "r", "e", "r", " ", "g">>   \* "bearer g"
UpperBearerG == <<"B", "E", "A", "R", "E", "R", " ", "g">>   \* "BEARER g"
BearerTwoSpaces == <<"B", "e", "a", "r", "e", "r", " ", " ", "g">>   \* "Bearer  g"
BasicG == <<"B", "a", "s", "i", "c", " ", "g">>   \* "Basic g"
BearerOnly == <<"B", "e", "a", "r", "e", "r">>   \* "Bearer"
BearerNoToken == <<"B", "e", "a", "r", "e", "r", " ">>   \* "Bearer "
TokenOnly == <<"g">>   \* "g"
BearerGH == <<"B", "e", "a", "r", "e", "r", " ", "g", " ", "h">>   \* "Bearer g h"
Headers == {NoHeader, BearerG, LowerBearerG, UpperBearerG, BearerTwoSpaces, BasicG,
            BearerOnly, BearerNoToken, TokenOnly, BearerGH}

\* Mutant: the scheme of the header is not compared with "bearer".
extractToken_AnyScheme(header) ==
  LET parts == Split(header, " ")
  IN IF Len(parts) = 2 THEN parts[2] ELSE <<>>

\* extractToken: the second of exactly two space-separated parts whose first
\* is "bearer" in any case; "" otherwise.
extractToken(header) ==
  LET parts == Split(header, " ")
  IN IF Len(parts) = 2 /\ ToLower(parts[1]) = <<"b", "e", "a", "r", "e", "r">>
       THEN parts[2] ELSE <<>>

\* What the claims of a token answer to the calls the middlewares make:
\* IsExpired(), HasAllPermissions(required...), HasAnyPermission(permissions...)
\* for the permissions of the route.
Claims == [expired : BOOLEAN, hasAll : BOOLEAN, hasAny : BOOLEAN]
NoClaims == [expired |-> FALSE, hasAll |-> FALSE, hasAny |-> FALSE]

\* What m.validator.ValidateToken(ctx, token) returns: an error, or claims.
ValidateToken ==
  {[err |-> TRUE, claims |-> NoClaims]} \cup {[err |-> FALSE, claims |-> c] : c \in Claims}
NotValidated == [err |-> FALSE, claims |-> NoClaims]

\* The handler chains of a route: Authenticate or not, then RequirePermissions
\* ("all"), RequireAnyPermission ("any") or neither, then the route's handler.
Routes ==
  {rt \in [authenticate : BOOLEAN, guard : {"none", "all", "any"}] :
     rt.authenticate \/ rt.guard # "none"}

authFrame == <<managerVars, entries, loaded, visitors, mu, limiters, reqs, health>>

\* A request with Authorization header h reaches the first middleware of its
\* route.  claims is the value of ContextKeyClaims in the request's context.
AuthRequest(h, rt) ==
  /\ auth.pc \in {"none", "done"}
  /\ auth' = [pc |-> IF rt.authenticate THEN "extract" ELSE "guard",
              header |-> h, route |-> rt, token |-> <<>>, validated |-> NotValidated,
              hasClaims |-> FALSE, claims |-> NoClaims,
              status |-> 0, authNext |-> FALSE, guardNext |-> FALSE, served |-> FALSE]
  /\ UNCHANGED authFrame

\* Authenticate: token := extractToken(r); "" is answered 401.
Authenticate_extractToken(a) ==
  /\ a.pc = "extract"
  /\ LET token == extractToken(a.header) IN
       auth' = IF token = <<>>
                 THEN [a EXCEPT !.status = 401, !.pc = "done"]
                 ELSE [a EXCEPT !.token = token, !.pc = "validate"]
  /\ UNCHANGED authFrame

\* Authenticate: m.validator.ValidateToken; an error is answered 401.
Authenticate_ValidateToken(a) ==
  /\ a.pc = "validate"
  /\ \E res \in ValidateToken :
       auth' = IF res.err
                 THEN [a EXCEPT !.validated = res, !.status = 401, !.pc = "done"]
                 ELSE [a EXCEPT !.validated = res, !.pc = "expired"]
  /\ UNCHANGED authFrame

\* The route's handler, or the next middleware of the chain, after Authenticate.
AfterAuthenticate(a) ==
  IF a.route.guard = "none"
    THEN [a EXCEPT !.served = TRUE, !.status = 200, !.pc = "done"]
    ELSE [a EXCEPT !.pc = "guard"]

\* Mutant: the expiry of the claims is not checked.
Authenticate_IsExpired_Skipped(a) ==
  /\ a.pc = "expired"
  /\ auth' = AfterAuthenticate([a EXCEPT !.hasClaims = TRUE, !.claims = a.validated.claims,
                                         !.authNext = TRUE])
  /\ UNCHANGED authFrame

\* Authenticate: expired claims are answered 401; otherwise the claims are put
\* in the context and next.ServeHTTP is called.
Authenticate_IsExpired(a) ==
  /\ a.pc = "expired"
  /\ auth' = IF a.validated.claims.expired
               THEN [a EXCEPT !.status = 401, !.pc = "done"]
               ELSE AfterAuthenticate([a EXCEPT !.hasClaims = TRUE,
                                                !.claims = a.validated.claims,
                                                !.authNext = TRUE])
  /\ UNCHANGED authFrame

\* The handler of RequirePermissions / RequireAnyPermission, the result of the
\* claims' permission check given: no claims in the context is answered 401,
\* a failed check 403, otherwise next.ServeHTTP is called.
Require(a, check) ==
  IF ~a.hasClaims THEN [a EXCEPT !.status = 401, !.pc = "done"]
  ELSE IF ~check THEN [a EXCEPT !.status = 403, !.pc = "done"]
  ELSE [a EXCEPT !.guardNext = TRUE, !.served = TRUE, !.status = 200, !.pc = "done"]

RequirePermissions(a) ==
  /\ a.pc = "guard"
  /\ a.route.guard = "all"
  /\ auth' = Require(a, a.claims.hasAll)
  /\ UNCHANGED authFrame

RequireAnyPermission(a) ==
  /\ a.pc = "guard"
  /\ a.route.guard = "any"
  /\ auth' = Require(a, a.claims.hasAny)
  /\ UNCHANGED authFrame

\* One request after the other through the middlewares of its route.
NextAuth ==
  \/ \E h \in Headers, rt \in Routes : AuthRequest(h, rt)
  \/ Authenticate_extractToken(auth)
  \/ Authenticate_ValidateToken(auth)
  \/ Authenticate_IsExpired(auth)
  \/ RequirePermissions(auth)
  \/ RequireAnyPermission(auth)
SpecAuth == Init /\ [][NextAuth]_vars

\* --------------------------------------------------- the health handler
\* The checkers given to NewHealthHandler: each with its Name() and with what
\* its Check(ctx) returns for the request (an error or nil).
MaxCheckers == 3
CheckerNames == {"db", "svc"}
Checkers ==
  UNION {[1..n -> [name : CheckerNames, err : BOOLEAN]] : n \in 0..MaxCheckers}

\* http.ResponseWriter: the first WriteHeader sets the status code, later ones
\* are ignored; a Write before any WriteHeader sets 200.
NewResponse == [wrote |-> FALSE, code |-> 0]
WriteHeader(w, code) == IF w.wrote THEN w ELSE [wrote |-> TRUE, code |-> code]
Write(w) == WriteHeader(w, 200)

healthFrame == <<managerVars, entries, loaded, visitors, mu, limiters, reqs, auth>>

\* A request reaches the handler: status is "healthy" with no details.
HealthHandler(cs) ==
  /\ health.pc \in {"none", "done"}
  /\ health' = [pc |-> "check", checkers |-> cs, i |-> 1, status |-> "healthy",
                details |-> [n \in CheckerNames |-> "none"], checked |-> <<>>,
                w |-> NewResponse]
  /\ UNCHANGED healthFrame

\* Mutant: the loop ends at the first checker that returns an error.
Check_StopsAtError(h) ==
  /\ h.pc = "check"
  /\ h.i <= Len(h.checkers)
  /\ LET checker == h.checkers[h.i]
         detail == IF checker.err THEN "unhealthy" ELSE "healthy"
     IN health' = [h EXCEPT !.status = IF checker.err THEN "unhealthy" ELSE @,
                            !.details[checker.name] = detail,
                            !.checked = Append(@, checker.name),
                            !.i = IF checker.err THEN Len(h.checkers) + 1 ELSE @ + 1]
  /\ UNCHANGED healthFrame

\* One iteration of the loop over the checkers: Check(ctx) is called; an error
\* makes the status and the detail "unhealthy"; the detail is stored under the
\* checker's name.
Check(h) ==
  /\ h.pc = "check"
  /\ h.i <= Len(h.checkers)
  /\ LET checker == h.checkers[h.i]
         detail == IF checker.err THEN "unhealthy" ELSE "healthy"
     IN health' = [h EXCEPT !.status = IF checker.err THEN "unhealthy" ELSE @,
                            !.details[checker.name] = detail,
                            !.checked = Append(@, checker.name),
                            !.i = @ + 1]
  /\ UNCHANGED healthFrame

\* After the loop: WriteHeader(503) when the status is not "healthy".
Status(h) ==
  /\ h.pc = "check"
  /\ h.i > Len(h.checkers)
  /\ health' = [h EXCEPT !.w = IF h.status # "healthy" THEN WriteHeader(@, 503) ELSE @,
                         !.pc = "encode"]
  /\ UNCHANGED healthFrame

\* json.NewEncoder(w).Encode(status): the encoder writes the body to w; when
\* the write fails the handler calls WriteHeader(500) and writes again.
Encode(h) ==
  /\ h.pc = "encode"
  /\ \E ok \in BOOLEAN :
       health' = [h EXCEPT !.w = IF ok THEN Write(@) ELSE Write(WriteHeader(Write(@), 500)),
                           !.pc = "done"]
  /\ UNCHANGED healthFrame

\* One request after the other to the health handler.
NextHealth ==
  \/ \E cs \in Checkers : HealthHandler(cs)
  \/ Check(health)
  \/ Status(health)
  \/ Encode(health)
SpecHealth == Init /\ [][NextHealth]_vars

\* ================================================================ claims
MigPcs == {"mig_begin", "mig_up", "mig_insert", "mig_commit", "mig_defer"}
Last(s) == s[Len(s)]
Distinct(ms) == \A i, j \in DOMAIN ms : i # j => ms[i].Version # ms[j].Version
StrictlyAscending(s) == \A i, j \in DOMAIN s : i < j => s[i] < s[j]
RowVersions == [i \in DOMAIN schema_migrations |-> schema_migrations[i].version]

\* The versions of p's list that the applied map of the running call does not
\* hold, in the order of the list.
PendingVersions(p) ==
  LET IsPending(mg) == mg.Version \notin applied[p]
      pend == SelectSeq(migrations[p], IsPending)
  IN [i \in DOMAIN pend |-> pend[i].Version]

\* C1: while a RunMigrations call on a Manager whose registered versions are
\* pairwise distinct is in its loop, the Up scripts it has executed so far are
\* the first pending versions in strictly ascending Version order, whatever
\* the order of the AddMigration calls was.
C1_AscendingOrder ==
  \A p \in Procs :
    (pc[p] \in MigPcs /\ Distinct(migrations[p])) =>
      /\ StrictlyAscending(upLog[p])
      /\ Len(upLog[p]) <= Len(PendingVersions(p))
      /\ upLog[p] = SubSeq(PendingVersions(p), 1, Len(upLog[p]))

\* Registered out of ascending order, three migrations ran as 1, 2, 3.
C1_Witness ==
  /\ unsorted["p1"]
  /\ pc["p1"] = "idle"
  /\ result["p1"] = Nil
  /\ upLog["p1"] = <<1, 2, 3>>

\* C2: in every reachable state of the store, also after failures and crashes
\* at any step, the committed Up effects are exactly the versions of the
\* committed tracking rows, one effect per row, in the same commit order.
C2_EffectIffRow == upEffects = RowVersions

\* A process crashed after its Up script ran and before the commit; the effect
\* of that version is not in the store.
C2_Witness ==
  \E p \in Procs :
    /\ result[p].kind = "crash"
    /\ result[p].wrap \in {"mig_insert", "mig_commit"}
    /\ upLog[p] # <<>>
    /\ \A i \in DOMAIN upEffects : upEffects[i] # Last(upLog[p])
    /\ ~HasVersion(schema_migrations, Last(upLog[p]))
\* The error of a RunMigrations call whose Up script or tracking insert failed.
FailedAt(e) ==
  e.kind = "err" /\ e.wrap \in {"executing migration", "recording migration"}

\* C3 as stated (checked where RunMigrations returns, on Managers whose
\* registered versions are pairwise distinct): when the Up script or the
\* tracking insert of version v failed, schema_migrations holds no row for v
\* and no version above v was attempted.
C3_Original ==
  [][\A p \in Procs :
       (pc[p] = "mig_defer" /\ pc'[p] = "idle" /\ FailedAt(result'[p])
          /\ Distinct(migrations[p])) =>
         /\ ~HasVersion(schema_migrations', result'[p].version)
         /\ \A i \in DOMAIN begun'[p] : begun'[p][i] <= result'[p].version]_vars

\* The state part of C3 as amended: a run that failed at v has an error naming
\* v as its result, v is the last version it attempted and no attempted
\* version is above v; while the error is on its way out the transaction of
\* the attempt is not committed.
C3_Inv ==
  \A p \in Procs :
    /\ (pc[p] = "idle" /\ FailedAt(result[p])) =>
         /\ begun[p] # <<>>
         /\ Last(begun[p]) = result[p].version
         /\ \A i \in DOMAIN begun[p] : begun[p][i] <= result[p].version
         /\ \A i \in DOMAIN upLog[p] : upLog[p][i] <= result[p].version
    /\ (pc[p] = "mig_defer" /\ ret[p] # Nil) => tx[p].state \in {"open", "rolledback"}

\* The step part of C3 as amended: the failing Exec commits nothing and leaves
\* the transaction open for the deferred Rollback; the return that follows
\* hands the error of v to the caller, commits nothing and attempts nothing.
C3_Act ==
  \A p \in Procs :
    /\ (pc[p] \in {"mig_up", "mig_insert"} /\ pc'[p] = "mig_defer") =>
         /\ FailedAt(ret'[p])
         /\ ret'[p].version = migrations[p][idx[p]].Version
         /\ tx'[p].state = "open"
         /\ store' = store
    /\ (pc[p] = "mig_defer" /\ ret[p] # Nil /\ pc'[p] # "mig_defer") =>
         /\ pc'[p] = "idle"
         /\ result'[p] = ret[p] \/ result'[p].kind = "crash"
         /\ store' = store
         /\ begun'[p] = begun[p]

\* C3 (amended): if the Up script or the tracking insert of version v fails,
\* RunMigrations returns an error for v, the transaction of that attempt is
\* rolled back so the attempt adds no row for v (a row for v exists afterwards
\* only if another transaction committed it), and no version above v is
\* attempted in that run.
C3_FailFast == []C3_Inv /\ [][C3_Act]_vars

\* The Up script of version 1 failed; version 2 is registered, pending and
\* was not attempted.
C3_Witness ==
  \E p \in Procs :
    /\ pc[p] = "idle"
    /\ result[p] = Err("executing migration", 1, "fail")
    /\ begun[p] = <<1>>
    /\ \E i \in DOMAIN migrations[p] : migrations[p][i].Version = 2
    /\ ~HasVersion(schema_migrations, 1)
    /\ ~HasVersion(schema_migrations, 2)
\* C4: in a RunMigrations call made after a call that returned nil, with no
\* AddMigration in between, no step executes an Up script or begins a
\* migration, and schema_migrations and the committed effects stay as they were.
C4_Idempotent ==
  [][\A p \in Procs :
       (rerun[p] = "yes" \/ rerun'[p] = "yes") =>
         /\ schema_migrations' = schema_migrations
         /\ upEffects' = upEffects
         /\ upLog'[p] = <<>>
         /\ begun'[p] = <<>>]_vars

\* A second call on a Manager with at least two applied migrations returned nil.
C4_Witness ==
  /\ pc["p1"] = "idle"
  /\ rerun["p1"] = "yes"
  /\ result["p1"] = Nil
  /\ Len(migrations["p1"]) >= 2
  /\ Len(schema_migrations) >= 2

\* C5: (a) when a RunMigrations call aborts at version v, every registered
\* version below v has a row; (b) when the next call on that Manager
\* (registered versions pairwise distinct) meets no store failure, it returns
\* nil, executes v and the other versions without a row in strictly ascending
\* order, executes no Up script of a version that was registered below v at
\* the abort, and leaves every registered version with a row.
C5_Resume ==
  [][\A p \in Procs :
       /\ (pc[p] # "idle" /\ pc'[p] = "idle" /\ aborted'[p].v # 0) =>
            \A u \in aborted'[p].low : HasVersion(schema_migrations', u)
       /\ (pc[p] # "idle" /\ pc'[p] = "idle" /\ aborted[p].v # 0 /\ clean'[p]
             /\ Distinct(migrations'[p])) =>
            /\ result'[p] = Nil
            /\ StrictlyAscending(upLog'[p])
            /\ \E i \in DOMAIN upLog'[p] : upLog'[p][i] = aborted[p].v
            /\ \A i \in DOMAIN upLog'[p] : upLog'[p][i] \notin aborted[p].low
            /\ \A i \in DOMAIN migrations'[p] :
                 HasVersion(schema_migrations', migrations'[p][i].Version)]_vars

\* The run after an abort at version 2 (version 1 applied before it) has
\* executed 2 and 3 and committed 3, with no store failure.
C5_Witness ==
  /\ pc["p1"] = "mig_defer"
  /\ aborted["p1"] = [v |-> 2, low |-> {1}]
  /\ clean["p1"]
  /\ upLog["p1"] = <<2, 3>>
  /\ tx["p1"].state = "committed"
  /\ RowVersions = <<1, 2, 3>>

NoDupEffects == \A i, j \in DOMAIN upEffects : i # j => upEffects[i] # upEffects[j]
NoDupRows ==
  \A i, j \in DOMAIN schema_migrations :
    i # j => schema_migrations[i].version # schema_migrations[j].version

\* C6 as stated (on Managers whose registered versions are pairwise distinct):
\* no step executes the Up script of a version that has a committed row.
C6_Original ==
  [][\A p \in Procs :
       (pc[p] = "mig_up" /\ pc'[p] \in {"mig_insert", "mig_defer"}
          /\ Distinct(migrations[p])) =>
         ~HasVersion(schema_migrations, migrations[p][idx[p]].Version)]_vars

\* C6 (amended): the Up effect of a version never becomes durable twice, and a
\* RunMigrations call executes the Up script only of versions that had no row
\* when it read the applied set: a call that reads the applied set after the
\* row of v was committed never executes the Up script of v, while a call that
\* read it before may still execute it in a transaction that is rolled back.
C6_AppliedAtMostOnce ==
  /\ []NoDupEffects
  /\ [][\A p \in Procs :
          /\ (pc[p] = "mig_up" /\ pc'[p] \in {"mig_insert", "mig_defer"}) =>
               migrations[p][idx[p]].Version \notin applied[p]
          /\ (pc[p] = "query" /\ pc'[p] = "mig_begin") => applied'[p] = AppliedVersions
          /\ (pc[p] \in MigPcs /\ pc'[p] \in MigPcs) => applied'[p] = applied[p]]_vars

\* A call that read the applied set before version v was committed has
\* executed the Up script of v after the commit.
C6_Witness ==
  \E p \in Procs :
    /\ pc[p] = "mig_insert"
    /\ Distinct(migrations[p])
    /\ HasVersion(schema_migrations, migrations[p][idx[p]].Version)
    /\ Last(upLog[p]) = migrations[p][idx[p]].Version

\* The run of p lost version v: its tracking insert failed on the primary key
\* and v is the last version it attempted.
Lost(p, v) ==
  /\ result[p] = Err("recording migration", v, "unique")
  /\ begun[p] # <<>>
  /\ Last(begun[p]) = v

\* C7: no version ever has two committed rows; and when the last runs of two
\* processes both executed the Up script of v (both had read the applied set
\* before v was committed) and met no injected store failure or crash, then
\* exactly one row and one Up effect of v are committed, one of the two runs
\* returned the unique-violation error of v and attempted nothing after v, and
\* with pairwise distinct versions on both Managers exactly one did.
C7_OneWinner ==
  /\ NoDupRows
  /\ \A p, q \in Procs : \A v \in Versions :
       (/\ p # q
        /\ pc[p] = "idle" /\ pc[q] = "idle"
        /\ result[p].kind # "none" /\ result[q].kind # "none"
        /\ clean[p] /\ clean[q]
        /\ \E i \in DOMAIN upLog[p] : upLog[p][i] = v
        /\ \E i \in DOMAIN upLog[q] : upLog[q][i] = v) =>
         /\ Cardinality({i \in DOMAIN schema_migrations : schema_migrations[i].version = v}) = 1
         /\ Cardinality({i \in DOMAIN upEffects : upEffects[i] = v}) = 1
         /\ Lost(p, v) \/ Lost(q, v)
         /\ (Distinct(migrations[p]) /\ Distinct(migrations[q])) =>
              ~(Lost(p, v) /\ Lost(q, v))

\* Both processes executed the Up script of version 1; p1 won and returned
\* nil, p2 lost.
C7_Witness ==
  /\ pc["p1"] = "idle" /\ pc["p2"] = "idle"
  /\ clean["p1"] /\ clean["p2"]
  /\ upLog["p1"] = <<1, 2>> /\ upLog["p2"] = <<1>>
  /\ result["p1"] = Nil
  /\ Lost("p2", 1)
  /\ Len(migrations["p2"]) = 2 /\ migrations["p2"][2].Version = 2

\* C8: at the step in which a RunMigrations call commits the migration with
\* version v, every version registered on that Manager below v has a row, and
\* the commit adds exactly the row and the effect of v.
C8_NoGap ==
  [][\A p \in Procs :
       (pc[p] = "mig_commit" /\ tx'[p].state = "committed") =>
         /\ \A u \in RegisteredBelow(p, migrations[p][idx[p]].Version) :
              HasVersion(schema_migrations, u)
         /\ schema_migrations' =
              Append(schema_migrations,
                     [version |-> migrations[p][idx[p]].Version,
                      description |-> migrations[p][idx[p]].Description])
         /\ upEffects' = Append(upEffects, migrations[p][idx[p]].Version)]_vars

\* Version 3 is committed by a run that found version 1 applied and a list
\* registered out of order.
C8_Witness ==
  /\ pc["p1"] = "mig_defer"
  /\ tx["p1"].state = "committed"
  /\ unsorted["p1"]
  /\ migrations["p1"][idx["p1"]].Version = 3
  /\ upLog["p1"] = <<2, 3>>
  /\ RowVersions = <<1, 2, 3>>

DeferPcs == {"cmt_defer", "cst_defer", "mig_defer", "seed_defer"}
NoTxPcs ==
  {"idle", "cmt_begin", "cst_begin", "query", "seed_query", "mig_begin", "seed_begin"}

\* C9: no function of the Manager has returned with its transaction open, and
\* outside createMigrationsTable, createSeedsTable, runMigration and runSeed
\* (in particular when RunMigrations or RunSeeds has returned) the process
\* holds no transaction; a transaction whose function is about to return after
\* a failed Exec is still open only until the deferred Rollback.
C9_NoOpenTx ==
  \A p \in Procs :
    /\ ~leaked[p]
    /\ pc[p] \in NoTxPcs => tx[p] = NoTx
    /\ pc[p] \in DeferPcs => Rollback(tx[p]).tx.state \in {"committed", "rolledback"}

\* RunSeeds returned the error of a failed tracking insert, after
\* RunMigrations had committed; nothing is open.
C9_Witness ==
  /\ pc["p1"] = "idle"
  /\ result["p1"] = SeedErr("recording seed", "a", "fail")
  /\ upEffects # <<>>
  /\ tx["p1"] = NoTx

\* The deferred Rollback of p runs in this step, after a Commit that succeeded.
RollbackAfterCommit(p) ==
  /\ pc[p] \in DeferPcs
  /\ tx[p].state = "committed"
  /\ pc'[p] # pc[p]
  /\ result'[p].kind # "crash"

\* The function whose deferred Rollback runs in this step hands nil to its
\* caller: RunMigrations / RunSeeds goes on or returns nil.
ReturnsNil(p) ==
  /\ ret[p] = Nil
  /\ pc'[p] \in {"query", "seed_query", "mig_begin", "seed_begin", "idle"}
  /\ pc'[p] = "idle" => result'[p] = Nil

C11_Original ==
  \A p \in Procs :
    (pc[p] = "idle" /\ result[p].kind = "err") =>
      /\ result[p].wrap # ""
      /\ result[p].version # -1 \/ result[p].name # ""

BootPcs == {"cmt_begin", "cmt_exec", "cmt_commit", "cmt_defer"}
SeedBootPcs == {"cst_begin", "cst_exec", "cst_commit", "cst_defer"}
\* p takes a step of its run in this step (it does not crash).
Steps(p) == pc'[p] # pc[p] /\ result'[p].kind # "crash"

\* What holds while runMigration / runSeed is about to return an error of the
\* effect script or of the tracking insert: the error names the unit being
\* run, holds the store error, that unit is the last one the run executed and
\* every unit the run executed before it is committed.
C12_Inv ==
  \A p \in Procs :
    /\ (pc[p] = "mig_defer" /\ ret[p].wrap \in {"executing migration", "recording migration"}) =>
         /\ ret[p].version = migrations[p][idx[p]].Version
         /\ ret[p].cause \in {"fail", "unique", "canceled"}
         /\ Last(upLog[p]) = ret[p].version
         /\ \A i \in 1..(Len(upLog[p]) - 1) : HasVersion(schema_migrations, upLog[p][i])
    /\ (pc[p] = "seed_defer" /\ ret[p].wrap \in {"executing seed", "recording seed"}) =>
         /\ ret[p].name = seeds[p][idx[p]].Name
         /\ ret[p].cause \in {"fail", "unique", "canceled"}
         /\ Last(seedLog[p]) = seeds[p][idx[p]]
         /\ \A i \in 1..(Len(seedLog[p]) - 1) : HasName(schema_seeds, seedLog[p][i].Name)

\* The failing Exec makes the function return the wrapped error, and the run
\* returns that very error.
C12_Act ==
  \A p \in Procs :
    /\ (pc[p] = "mig_up" /\ pc'[p] = "mig_defer") =>
         /\ ret'[p].kind = "err" /\ ret'[p].wrap = "executing migration"
         /\ ret'[p].version = migrations[p][idx[p]].Version
    /\ (pc[p] = "mig_insert" /\ pc'[p] = "mig_defer") =>
         /\ ret'[p].kind = "err" /\ ret'[p].wrap = "recording migration"
         /\ ret'[p].version = migrations[p][idx[p]].Version
    /\ (pc[p] = "seed_run" /\ pc'[p] = "seed_defer") =>
         /\ ret'[p].kind = "err" /\ ret'[p].wrap = "executing seed"
         /\ ret'[p].name = seeds[p][idx[p]].Name
    /\ (pc[p] = "seed_insert" /\ pc'[p] = "seed_defer") =>
         /\ ret'[p].kind = "err" /\ ret'[p].wrap = "recording seed"
         /\ ret'[p].name = seeds[p][idx[p]].Name
    /\ (pc[p] \in {"mig_defer", "seed_defer"} /\ ret[p] # Nil /\ Steps(p)) =>
         pc'[p] = "idle" /\ result'[p] = ret[p]

\* C12: when the effect script or the tracking insert of a unit fails, the run
\* returns an error that carries the unit's version or name and the store
\* error, and it is the error of the first unit that failed: every unit the
\* run executed before it was committed and none is run after it.
C12_FirstFailingUnit == []C12_Inv /\ [][C12_Act]_vars

\* RunMigrations returned the error of the tracking insert of version 2 after
\* it had committed version 1.
C12_Witness ==
  /\ pc["p1"] = "idle"
  /\ result["p1"].wrap = "recording migration"
  /\ result["p1"].version = 2
  /\ result["p1"].cause = "fail"
  /\ upLog["p1"] = <<1, 2>>
  /\ RowVersions = <<1>>

\* C13: while the tracking table is bootstrapped no unit is begun or executed
\* and no tracking row or effect is committed; a bootstrap whose Begin, Exec
\* or Commit failed makes the run return that error at once; and the applied
\* set is queried only after the bootstrap transaction has committed.
C13_BootstrapFirst ==
  [][\A p \in Procs :
       /\ pc[p] \in BootPcs =>
            /\ upLog'[p] = <<>> /\ begun'[p] = <<>>
            /\ schema_migrations' = schema_migrations /\ upEffects' = upEffects
       /\ pc[p] \in SeedBootPcs =>
            /\ seedLog'[p] = <<>>
            /\ schema_seeds' = schema_seeds /\ seedEffects' = seedEffects
       /\ (pc[p] \in {"cmt_defer", "cst_defer"} /\ ret[p] # Nil /\ Steps(p)) =>
            pc'[p] = "idle" /\ result'[p] = ret[p]
       /\ (pc[p] \in {"cmt_begin", "cst_begin"} /\ tx'[p].state # "open" /\ Steps(p)) =>
            pc'[p] = "idle" /\ result'[p].kind = "err"
       /\ (pc[p] # "query" /\ pc'[p] = "query") =>
            pc[p] = "cmt_defer" /\ ret[p] = Nil /\ tx[p].state = "committed"
       /\ (pc[p] # "seed_query" /\ pc'[p] = "seed_query") =>
            pc[p] = "cst_defer" /\ ret[p] = Nil /\ tx[p].state = "committed"]_vars

\* The Commit of the bootstrap transaction failed in a run that has a pending
\* migration and finds the table of an earlier run.
C13_Witness ==
  /\ pc["p1"] = "cmt_defer"
  /\ ret["p1"] # Nil
  /\ tx["p1"].state = "rolledback"
  /\ "schema_migrations" \in tables
  /\ Len(migrations["p1"]) >= 1
  /\ schema_migrations = <<>>
\* A run of p whose context was cancelled has returned.
ReturnedCancelled(p) ==
  /\ pc[p] = "idle"
  /\ ctx[p] = "cancelled"
  /\ result[p].kind \in {"nil", "err"}

\* After the cancellation nothing is committed, no transaction is opened and
\* no write is added to the open one.
C14_Stops ==
  \A p \in Procs :
    ctx[p] = "cancelled" =>
      /\ store' = store
      /\ tx'[p].state = "open" => tx'[p] = tx[p]

\* C14 as stated: a run whose context is cancelled between two store calls
\* returns an error, leaves no transaction open and nothing of the unit in
\* progress committed, and begins no unit after the cancellation.
C14_Original ==
  /\ [](\A p \in Procs :
          ReturnedCancelled(p) =>
            result[p].kind = "err" /\ tx[p] = NoTx /\ ~leaked[p])
  /\ [][C14_Stops]_vars

\* C14 (amended): a run whose context is cancelled between two store calls
\* returns an error, unless the cancellation falls after the Commit of the last
\* pending migration, where only the deferred Rollback is left: then the run
\* returns nil with every registered migration committed (checked until the
\* next AddMigration).  In both cases no
\* transaction is left open, nothing is committed after the cancellation and
\* no transaction is opened after it.
C14_Cancellation ==
  /\ [](\A p \in Procs :
          ReturnedCancelled(p) =>
            /\ tx[p] = NoTx /\ ~leaked[p]
            /\ \/ result[p].kind = "err"
               \/ /\ result[p] = Nil
                  /\ cancelAt[p] = "mig_defer"
                  /\ rerun[p] # "no" =>
                       \A i \in DOMAIN migrations[p] :
                         HasVersion(schema_migrations, migrations[p][i].Version)
            /\ cancelAt[p] \notin DeferPcs => result[p].cause = "canceled")
  /\ [][C14_Stops]_vars

\* The context was cancelled between the Up script and the tracking insert of
\* version 2: the run returned the cancellation error of the insert, version 1
\* stays committed and version 2 is not.
C14_Witness ==
  /\ ReturnedCancelled("p1")
  /\ cancelAt["p1"] = "mig_insert"
  /\ result["p1"].wrap = "recording migration"
  /\ result["p1"].version = 2
  /\ result["p1"].cause = "canceled"
  /\ RowVersions = <<1>>
  /\ upEffects = <<1>>
SeedPcs == {"seed_begin", "seed_run", "seed_insert", "seed_commit", "seed_defer"}
DistinctPriorities(ss) == \A i, j \in DOMAIN ss : i # j => ss[i].Priority # ss[j].Priority

\* The seeds of p's list whose name the applied map of the running call does
\* not hold, in the order of the list.
PendingSeeds(p) ==
  LET IsPending(seed) == seed.Name \notin applied[p]
  IN SelectSeq(seeds[p], IsPending)

\* C15: while a RunSeeds call is in its loop, the seed actions it has run so far
\* are the first pending seeds of the list, no seed has run before a seed of
\* strictly lower Priority, and when the registered priorities are pairwise
\* distinct the priorities run are strictly ascending, whatever the names and
\* the order of the AddSeed calls were.
C15_PriorityOrder ==
  \A p \in Procs :
    pc[p] \in SeedPcs =>
      /\ Len(seedLog[p]) <= Len(PendingSeeds(p))
      /\ seedLog[p] = SubSeq(PendingSeeds(p), 1, Len(seedLog[p]))
      /\ \A i, j \in DOMAIN seedLog[p] :
           i < j => seedLog[p][i].Priority <= seedLog[p][j].Priority
      /\ DistinctPriorities(seeds[p]) =>
           \A i, j \in DOMAIN seedLog[p] :
             i < j => seedLog[p][i].Priority < seedLog[p][j].Priority

\* Registered out of priority order, three seeds ran by priority 1, 2, 3,
\* against the order of their names.
C15_Witness ==
  /\ unsorted["p1"]
  /\ pc["p1"] = "idle"
  /\ result["p1"] = Nil
  /\ seedLog["p1"] = <<[Name |-> "c", Priority |-> 1], [Name |-> "a", Priority |-> 2],
                       [Name |-> "b", Priority |-> 3]>>
\* The step of the common template at which a position of either pipeline
\* stands: the store operation that is issued next.
Phase(l) ==
  CASE l \in {"cmt_begin", "cst_begin"} -> "boot_begin"
    [] l \in {"cmt_exec", "cst_exec"} -> "boot_exec"
    [] l \in {"cmt_commit", "cst_commit"} -> "boot_commit"
    [] l \in {"cmt_defer", "cst_defer"} -> "boot_rollback"
    [] l \in {"query", "seed_query"} -> "query"
    [] l \in {"mig_begin", "seed_begin"} -> "unit_begin"
    [] l \in {"mig_up", "seed_run"} -> "unit_effect"
    [] l \in {"mig_insert", "seed_insert"} -> "unit_insert"
    [] l \in {"mig_commit", "seed_commit"} -> "unit_commit"
    [] l \in {"mig_defer", "seed_defer"} -> "unit_rollback"
    [] OTHER -> "idle"

\* The template: from each store operation, on its success (FALSE) or its
\* failure (TRUE), the operation issued next ("idle": the run returns).
Template ==
  {<<"idle", FALSE, "boot_begin">>,
   <<"boot_begin", FALSE, "boot_exec">>, <<"boot_begin", TRUE, "idle">>,
   <<"boot_exec", FALSE, "boot_commit">>, <<"boot_exec", TRUE, "boot_rollback">>,
   <<"boot_commit", FALSE, "boot_rollback">>, <<"boot_commit", TRUE, "boot_rollback">>,
   <<"boot_rollback", FALSE, "query">>, <<"boot_rollback", TRUE, "idle">>,
   <<"query", FALSE, "unit_begin">>, <<"query", FALSE, "idle">>, <<"query", TRUE, "idle">>,
   <<"unit_begin", FALSE, "unit_effect">>, <<"unit_begin", TRUE, "idle">>,
   <<"unit_effect", FALSE, "unit_insert">>, <<"unit_effect", TRUE, "unit_rollback">>,
   <<"unit_insert", FALSE, "unit_commit">>, <<"unit_insert", TRUE, "unit_rollback">>,
   <<"unit_commit", FALSE, "unit_rollback">>, <<"unit_commit", TRUE, "unit_rollback">>,
   <<"unit_rollback", FALSE, "unit_begin">>, <<"unit_rollback", FALSE, "idle">>,
   <<"unit_rollback", TRUE, "idle">>}

\* The mapping version -> name, Up -> Run, schema_migrations -> schema_seeds:
\* the two pipelines seen through the same names.
OfSeeds(l) == l \in SeedBootPcs \cup SeedPcs \cup {"seed_query"}
UnitOf(p) == IF OfSeeds(pc[p]) THEN seeds[p][idx[p]].Name ELSE migrations[p][idx[p]].Version
FxOf(t, sd) == IF sd THEN t.seedfx ELSE t.up
RowKeys(rows, sd) == [i \in DOMAIN rows |-> IF sd THEN rows[i].name ELSE rows[i].version]
RowsOf(t, sd) == IF sd THEN RowKeys(t.seedrows, TRUE) ELSE RowKeys(t.rows, FALSE)
TrackingRows(sd) == IF sd THEN RowKeys(schema_seeds, TRUE) ELSE RowKeys(schema_migrations, FALSE)
Effects(sd) == IF sd THEN seedEffects ELSE upEffects
TrackingRowsAfter(sd) ==
  IF sd THEN RowKeys(schema_seeds', TRUE) ELSE RowKeys(schema_migrations', FALSE)
EffectsAfter(sd) == IF sd THEN seedEffects' ELSE upEffects'

\* A step of p inside a run follows the template, and its store operation does
\* to the pipeline's own table what the template says.
FollowsTemplate(p) ==
  LET a == Phase(pc[p])
      b == Phase(pc'[p])
      failed == ret'[p] # Nil \/ (b = "idle" /\ result'[p].kind = "err")
      sd == OfSeeds(pc[p])
  IN (Steps(p) /\ (a # "idle" \/ b # "idle")) =>
       /\ <<a, failed, b>> \in Template
       /\ a # "idle" => OfSeeds(pc'[p]) = sd \/ b = "idle"
       /\ (a = "unit_effect" /\ ~failed) =>
            /\ FxOf(tx'[p], sd) = Append(FxOf(tx[p], sd), UnitOf(p))
            /\ RowsOf(tx'[p], sd) = RowsOf(tx[p], sd)
       /\ (a = "unit_insert" /\ ~failed) =>
            /\ RowsOf(tx'[p], sd) = Append(RowsOf(tx[p], sd), UnitOf(p))
            /\ FxOf(tx'[p], sd) = FxOf(tx[p], sd)
       /\ (a = "unit_commit" /\ ~failed) =>
            /\ TrackingRowsAfter(sd) = Append(TrackingRows(sd), UnitOf(p))
            /\ EffectsAfter(sd) = Append(Effects(sd), UnitOf(p))
       /\ (a # "unit_commit" \/ failed) =>
            /\ TrackingRowsAfter(sd) = TrackingRows(sd)
            /\ EffectsAfter(sd) = Effects(sd)

DistinctNames(ss) == \A i, j \in DOMAIN ss : i # j => ss[i].Name # ss[j].Name

\* The seed whose effect or tracking insert failed makes RunSeeds return: the
\* transaction of the attempt is rolled back and the run goes no further.
SeedFailFast(p) ==
  (pc[p] = "seed_defer" /\ ret[p] # Nil /\ Steps(p)) =>
    /\ pc'[p] = "idle" /\ result'[p] = ret[p]
    /\ Rollback(tx[p]).tx.state = "rolledback"
    /\ schema_seeds' = schema_seeds /\ seedEffects' = seedEffects

\* C16 as stated, its last clause: when RunSeeds (on a Manager with pairwise
\* distinct seed names) returns the error of a seed's action or tracking
\* insert, schema_seeds holds no row for that seed.
C16_Original ==
  [][\A p \in Procs :
       (pc[p] = "seed_defer" /\ pc'[p] = "idle" /\ Steps(p)
          /\ ret[p].wrap \in {"executing seed", "recording seed"}
          /\ DistinctNames(seeds[p])) =>
         ~HasName(schema_seeds', ret[p].name)]_vars

\* C16 (amended): RunSeeds and RunMigrations follow one template under the
\* mapping version -> name, Up -> Run, schema_migrations -> schema_seeds: every
\* step of either pipeline issues the store operation the template gives for
\* the outcome of the previous one; a seed's effect and its schema_seeds row
\* commit together; and the first failing seed aborts the run with its
\* transaction rolled back, so that the attempt adds no row (a row for the
\* seed's name is there afterwards only when another transaction committed it).
C16_SameTemplate ==
  /\ [](seedEffects = RowKeys(schema_seeds, TRUE))
  /\ [][\A p \in Procs : FollowsTemplate(p) /\ SeedFailFast(p)]_vars

\* Both commands ran seed "a": p1 committed it, p2 lost the tracking insert on
\* the primary key, after both had applied their migrations.
C16_Witness ==
  /\ pc["p1"] = "idle" /\ pc["p2"] = "idle"
  /\ result["p2"] = SeedErr("recording seed", "a", "unique")
  /\ result["p1"] = Nil /\ cmd["p1"] = "seeding"
  /\ seedLog["p1"][1].Name = "a"
  /\ upEffects # <<>>
  /\ HasName(schema_seeds, "a")
IsPrefix(s, t) == Len(s) <= Len(t) /\ SubSeq(t, 1, Len(s)) = s

\* C17: no step removes or rewrites a committed tracking row or a committed
\* effect of either pipeline (no effect is reversed, as a Down script would),
\* and no table is dropped; when a run returns an error, the units it
\* committed before the error are still applied.
C17_OnlyGrows ==
  [][/\ IsPrefix(schema_migrations, schema_migrations')
     /\ IsPrefix(upEffects, upEffects')
     /\ IsPrefix(schema_seeds, schema_seeds')
     /\ IsPrefix(seedEffects, seedEffects')
     /\ tables \subseteq tables'
     /\ \A p \in Procs :
          /\ (pc[p] = "mig_defer" /\ ret[p] # Nil /\ Steps(p)) =>
               \A i \in 1..(Len(upLog[p]) - 1) :
                 /\ HasVersion(schema_migrations', upLog[p][i])
                 /\ upLog[p][i] \in Range(upEffects')
          /\ (pc[p] = "seed_defer" /\ ret[p] # Nil /\ Steps(p)) =>
               \A i \in 1..(Len(seedLog[p]) - 1) :
                 /\ HasName(schema_seeds', seedLog[p][i].Name)
                 /\ seedLog[p][i].Name \in Range(seedEffects')]_vars

\* RunMigrations returned the error of the Up script of version 2; version 1,
\* committed by the same run, is still applied.
C17_Witness ==
  /\ pc["p1"] = "idle"
  /\ result["p1"].wrap = "executing migration"
  /\ result["p1"].version = 2
  /\ upLog["p1"] = <<1, 2>>
  /\ RowVersions = <<1>>
  /\ upEffects = <<1>>
MigRunPcs == BootPcs \cup {"query"} \cup MigPcs
SeedRunPcs == SeedBootPcs \cup {"seed_query"} \cup SeedPcs

\* C18: a step of RunMigrations (its call and return included) leaves the seed
\* list, schema_seeds, the seed effects and the record of seed actions as they
\* are and puts no seed write into its transaction; a step of RunSeeds does
\* the same for the migration side; AddMigration appends to the migration list
\* and changes nothing else, AddSeed appends to the seed list and changes
\* nothing else.
C18_Independent ==
  [][\A p \in Procs :
       /\ (Steps(p) /\ (pc[p] \in MigRunPcs \/ pc'[p] \in MigRunPcs)) =>
            /\ seeds' = seeds /\ seedLog' = seedLog
            /\ schema_seeds' = schema_seeds /\ seedEffects' = seedEffects
            /\ "schema_seeds" \in tables' <=> "schema_seeds" \in tables
            /\ tx'[p].seedfx = <<>> /\ tx'[p].seedrows = <<>>
            /\ "schema_seeds" \notin tx'[p].ddl
       /\ (Steps(p) /\ (pc[p] \in SeedRunPcs \/ pc'[p] \in SeedRunPcs)) =>
            /\ migrations' = migrations /\ upLog' = upLog /\ begun' = begun
            /\ schema_migrations' = schema_migrations /\ upEffects' = upEffects
            /\ "schema_migrations" \in tables' <=> "schema_migrations" \in tables
            /\ tx'[p].up = <<>> /\ tx'[p].rows = <<>>
            /\ "schema_migrations" \notin tx'[p].ddl
       /\ (pc[p] = "idle" /\ pc'[p] = "idle" /\ migrations'[p] # migrations[p]) =>
            /\ Len(migrations'[p]) = Len(migrations[p]) + 1
            /\ SubSeq(migrations'[p], 1, Len(migrations[p])) = migrations[p]
            /\ seeds' = seeds /\ store' = store /\ tx' = tx
       /\ (pc[p] = "idle" /\ pc'[p] = "idle" /\ seeds'[p] # seeds[p]) =>
            /\ Len(seeds'[p]) = Len(seeds[p]) + 1
            /\ SubSeq(seeds'[p], 1, Len(seeds[p])) = seeds[p]
            /\ migrations' = migrations /\ store' = store /\ tx' = tx]_vars

\* RunSeeds is about to commit a seed on a Manager whose two migrations are
\* registered and applied, one more seed being registered.
C18_Witness ==
  /\ pc["p1"] = "seed_commit"
  /\ Len(migrations["p1"]) = 2
  /\ RowVersions = <<1, 2>>
  /\ Len(seeds["p1"]) = 2
  /\ schema_seeds = <<>>

\* C19: LoadMigrationsFromDir makes exactly one Migration per version; a
\* directory holding 001_init_up.sql and 001_init_down.sql, in either order
\* and with no other file of version 1, yields exactly one Migration of
\* Version 1, with Description "init", Up the up file's content and Down the
\* down file's content.
FileVersion(entry) == Atoi(Split(TrimSuffix(entry.name, DotSql), "_")[1])
HoldsInitPair ==
  /\ \E i \in DOMAIN entries : entries[i] = UpInit
  /\ \E i \in DOMAIN entries : entries[i] = DownInit
  /\ \A i \in DOMAIN entries :
       (entries[i] \notin {UpInit, DownInit} /\ HasSuffix(entries[i].name, DotSql))
         => (FileVersion(entries[i]).err \/ FileVersion(entries[i]).n # 1)
InitMigration ==
  [Version |-> 1, Description |-> <<"i", "n", "i", "t">>, Up |-> "CREATE", Down |-> "DROP"]
C19_Merges ==
  (loaded.kind = "migrations" /\ loaded.err = NoLoadErr) =>
     /\ \A i, j \in DOMAIN loaded.migrations :
          i # j => loaded.migrations[i].Version # loaded.migrations[j].Version
     /\ HoldsInitPair =>
          /\ Cardinality({i \in DOMAIN loaded.migrations :
                            loaded.migrations[i].Version = 1}) = 1
          /\ \E i \in DOMAIN loaded.migrations : loaded.migrations[i] = InitMigration
C19_Witness ==
  /\ entries = <<UpInit, UpAB, DownInit>>
  /\ loaded.kind = "migrations"
  /\ loaded.err = NoLoadErr
  /\ Len(loaded.migrations) = 2
  /\ loaded.migrations[2] = InitMigration

\* C20: a load error of the migrate command comes before any store operation
\* of the Manager: the command ends by it from its start only, the store is
\* as it was, and the invocation has created no tracking table, executed no
\* Up script and no seed action, and holds no transaction.
C20_Inv ==
  \A p \in Procs :
     result[p].kind = "fatal" =>
        /\ cmd[p] = "none"
        /\ pc[p] = "idle"
        /\ tx[p] = NoTx
        /\ ~leaked[p]
        /\ upLog[p] = <<>>
        /\ seedLog[p] = <<>>
        /\ begun[p] = <<>>
C20_Act ==
  \A p \in Procs :
     (result'[p].kind = "fatal" /\ result'[p] # result[p]) =>
        /\ cmd[p] = "none"
        /\ pc[p] = "idle"
        /\ store' = store
C20_LoadErrorFirst == []C20_Inv /\ [][C20_Act]_vars
C20_Witness ==
  /\ result["p1"] = Fatal("loading seeds:", "invalid priority in filename")
  /\ "schema_migrations" \in tables
  /\ schema_migrations # <<>>
  /\ upLog["p1"] = <<>>

\* The transactions p holds open: the one of its handle, and those a function
\* that returned has left open.
OpenTxs(p) ==
  (IF tx[p].state = "open" THEN 1 ELSE 0) + (IF leaked[p] THEN 1 ELSE 0)
BeginPcs == {"cmt_begin", "cst_begin", "mig_begin", "seed_begin"}

\* C21: within a RunMigrations or RunSeeds call at most one transaction is
\* open at any time, none is open when the applied-set Query is issued (the
\* bootstrap transaction is terminated before it), and every Begin, of the
\* bootstrap and of each unit, is issued while no transaction is open (the
\* transaction of unit k is terminated before that of unit k+1 is begun).
C21_Inv ==
  \A p \in Procs :
     /\ OpenTxs(p) <= 1
     /\ pc[p] \in {"query", "seed_query"} => OpenTxs(p) = 0
C21_Act ==
  \A p \in Procs :
     /\ (pc[p] \in BeginPcs /\ Steps(p)) => OpenTxs(p) = 0
     /\ (pc[p] \in {"query", "seed_query"} /\ Steps(p)) => OpenTxs(p) = 0
     /\ (tx[p].state # "open" /\ tx'[p].state = "open") => pc[p] \in BeginPcs
C21_Serial == []C21_Inv /\ [][C21_Act]_vars
C21_Witness ==
  /\ pc["p1"] = "mig_up"
  /\ Len(begun["p1"]) = 2
  /\ Len(schema_migrations) = 1
  /\ OpenTxs("p1") = 1

\* C22: in the migrate command RunSeeds is called only when RunMigrations has
\* returned nil; until then, and when RunMigrations returns an error and the
\* command ends, no seed action is executed, no step of the seed pipeline is
\* taken, and schema_seeds (the table and its rows) and the seed effects stay
\* as they are.
C22_Inv ==
  \A p \in Procs :
     /\ pc[p] \in SeedRunPcs => cmd[p] = "seeding"
     /\ cmd[p] = "migrating" =>
          /\ seedLog[p] = <<>>
          /\ tx[p].seedfx = <<>>
          /\ tx[p].seedrows = <<>>
          /\ "schema_seeds" \notin tx[p].ddl
C22_Act ==
  \A p \in Procs :
     /\ (cmd[p] # "seeding" /\ cmd'[p] = "seeding") =>
          /\ cmd[p] = "migrating"
          /\ pc[p] = "idle"
          /\ result[p] = Nil
     /\ cmd[p] = "migrating" =>
          /\ schema_seeds' = schema_seeds
          /\ seedEffects' = seedEffects
          /\ ("schema_seeds" \in tables') = ("schema_seeds" \in tables)
          /\ seedLog'[p] = <<>>
C22_MigrationsThenSeeds == []C22_Inv /\ [][C22_Act]_vars
C22_Witness ==
  /\ cmd["p1"] = "none"
  /\ result["p1"] = Err("executing migration", 2, "fail")
  /\ seedLog["p1"] = <<>>
  /\ upLog["p1"] = <<1, 2>>
  /\ "schema_seeds" \notin tables

\* p's RunMigrations / RunSeeds returns nil in this step.
MigrationsReturnNil(p) ==
  pc[p] \in MigRunPcs /\ pc'[p] = "idle" /\ result'[p] = Nil
SeedsReturnNil(p) ==
  pc[p] \in SeedRunPcs /\ pc'[p] = "idle" /\ result'[p] = Nil

\* C23: with one process on the store, when RunMigrations returns nil every
\* registered migration's version has a row in schema_migrations, and when
\* RunSeeds returns nil every registered seed's name has a row in schema_seeds.
C23_SuccessPostcondition ==
  [][\A p \in Procs :
       /\ MigrationsReturnNil(p) =>
            \A i \in DOMAIN migrations'[p] :
               HasVersion(schema_migrations', migrations'[p][i].Version)
       /\ SeedsReturnNil(p) =>
            \A i \in DOMAIN seeds'[p] :
               HasName(schema_seeds', seeds'[p][i].Name)]_vars
C23_Witness ==
  /\ pc["p1"] = "idle"
  /\ result["p1"] = Nil
  /\ Len(migrations["p1"]) = 2
  /\ Len(seeds["p1"]) = 2
  /\ Len(upLog["p1"]) = 2
  /\ Len(seedLog["p1"]) = 2
  /\ \A i \in DOMAIN migrations["p1"] :
        HasVersion(schema_migrations, migrations["p1"][i].Version)
  /\ \A i \in DOMAIN seeds["p1"] : HasName(schema_seeds, seeds["p1"][i].Name)

\* The first index of pend whose key an earlier index of pend holds too
\* (0: the keys of pend are pairwise distinct).
FirstRepeat(keys, pend) ==
  LET r == {j \in pend : \E i \in pend : i < j /\ keys[i] = keys[j]}
  IN IF r = {} THEN 0 ELSE CHOOSE j \in r : \A k \in r : j <= k
Count(s, x) == Cardinality({i \in DOMAIN s : s[i] = x})
KeysUpTo(keys, pend, j) ==
  LET IsIn(i) == i \in pend /\ i <= j
      ix == SelectSeq([i \in DOMAIN keys |-> i], IsIn)
  IN [i \in DOMAIN ix |-> keys[ix[i]]]
MigKeys(p) == [i \in DOMAIN migrations[p] |-> migrations[p][i].Version]
MigPend(p) == {i \in DOMAIN migrations[p] : migrations[p][i].Version \notin applied[p]}
SeedKeys(p) == [i \in DOMAIN seeds[p] |-> seeds[p][i].Name]
SeedPend(p) == {i \in DOMAIN seeds[p] : seeds[p][i].Name \notin applied[p]}

\* The loop of RunMigrations / RunSeeds of p returns in this step, and no store
\* call of the run was made to fail.
MigLoopReturns(p) == pc[p] = "mig_defer" /\ pc'[p] = "idle" /\ Steps(p) /\ clean'[p]
SeedLoopReturns(p) == pc[p] = "seed_defer" /\ pc'[p] = "idle" /\ Steps(p) /\ clean'[p]

\* C24: when two pending migrations of one Manager share a version v, a
\* RunMigrations call whose store calls are not made to fail attempts both:
\* it returns the error of the tracking insert of v, having executed the Up
\* script of every pending migration up to the second one of version v (v
\* twice), with one row and one Up effect of v committed and no pending
\* migration after it applied (none whose version the run had not reached
\* before has a row).  The same for two pending seeds sharing a Name.
C24_SharedKey ==
  [][\A p \in Procs :
       /\ (MigLoopReturns(p) /\ FirstRepeat(MigKeys(p), MigPend(p)) # 0) =>
            LET j == FirstRepeat(MigKeys(p), MigPend(p))
                v == MigKeys(p)[j]
            IN /\ result'[p] = Err("recording migration", v, "unique")
               /\ upLog'[p] = KeysUpTo(MigKeys(p), MigPend(p), j)
               /\ Count(upLog'[p], v) = 2
               /\ Count([i \in DOMAIN schema_migrations' |-> schema_migrations'[i].version], v) = 1
               /\ Count(upEffects', v) = 1
               /\ \A i \in MigPend(p) :
                    (i > j /\ \A k \in MigPend(p) : k <= j => MigKeys(p)[k] # MigKeys(p)[i]) =>
                       ~HasVersion(schema_migrations', MigKeys(p)[i])
       /\ (SeedLoopReturns(p) /\ FirstRepeat(SeedKeys(p), SeedPend(p)) # 0) =>
            LET j == FirstRepeat(SeedKeys(p), SeedPend(p))
                n == SeedKeys(p)[j]
            IN /\ result'[p] = SeedErr("recording seed", n, "unique")
               /\ [i \in DOMAIN seedLog'[p] |-> seedLog'[p][i].Name]
                    = KeysUpTo(SeedKeys(p), SeedPend(p), j)
               /\ Cardinality({i \in DOMAIN seedLog'[p] : seedLog'[p][i].Name = n}) = 2
               /\ Count([i \in DOMAIN schema_seeds' |-> schema_seeds'[i].name], n) = 1
               /\ Count(seedEffects', n) = 1
               /\ \A i \in SeedPend(p) :
                    (i > j /\ \A k \in SeedPend(p) : k <= j => SeedKeys(p)[k] # SeedKeys(p)[i]) =>
                       ~HasName(schema_seeds', SeedKeys(p)[i])]_vars
\* Versions 2, 2, 3 were pending: the run stopped at the second 2, and 3 is
\* left for a later run.
C24_Witness ==
  /\ pc["p1"] = "idle"
  /\ result["p1"] = Err("recording migration", 2, "unique")
  /\ MigKeys("p1") = <<2, 2, 3>>
  /\ upLog["p1"] = <<2, 2>>
  /\ RowVersions = <<2>>
  /\ upEffects = <<2>>
  /\ clean["p1"]

\* C25: the RateLimiter has created exactly one limiter for every RemoteAddr
\* it has seen, whatever the interleaving of the requests; the limiter a
\* request consumes from is the one the map holds for its address; a request
\* its limiter rejected is answered 429 and next is not called for it, one it
\* allowed goes to next.
SeenAddrs == {a \in Addrs : visitors[a] # 0}
C25_OneLimiter ==
  /\ Len(limiters) = Cardinality(SeenAddrs)
  /\ \A a, b \in SeenAddrs : a # b => visitors[a] # visitors[b]
  /\ \A r \in Reqs :
       /\ reqs[r].limiter # 0 => reqs[r].limiter = visitors[reqs[r].addr]
       /\ \A q \in Reqs :
            (reqs[r].limiter # 0 /\ reqs[q].limiter # 0 /\ reqs[r].addr = reqs[q].addr)
              => reqs[r].limiter = reqs[q].limiter
       /\ reqs[r].pc = "done" =>
            /\ reqs[r].status = 429 <=> ~reqs[r].allowed
            /\ reqs[r].next <=> reqs[r].allowed
\* Two requests from x are past getVisitor at the same time with the same
\* limiter, a third from x was rejected by it.
C25_Witness ==
  /\ reqs["r1"].addr = "x" /\ reqs["r2"].addr = "x" /\ reqs["r3"].addr = "x"
  /\ reqs["r1"].pc = "allow" /\ reqs["r2"].pc = "allow"
  /\ reqs["r1"].limiter = reqs["r2"].limiter
  /\ reqs["r3"].pc = "done" /\ reqs["r3"].status = 429 /\ ~reqs["r3"].next
  /\ Len(limiters) = 1

\* The header carries a bearer token: the scheme "bearer" in any case, a space
\* and a token.
CarriesBearer(h) ==
  /\ Len(h) >= 8
  /\ ToLower(SubSeq(h, 1, 6)) = <<"b", "e", "a", "r", "e", "r">>
  /\ h[7] = " "
  /\ h[8] # " "

\* C26: Authenticate calls next only for a request that carries a bearer token
\* which the validator accepted and whose claims are not expired; a request it
\* does not hand to next is answered 401 and reaches neither the permission
\* middleware nor the route's handler.  RequirePermissions and
\* RequireAnyPermission call next only with claims in the context that pass
\* their permission check.
C26_OnlyAuthenticated ==
  auth.pc # "none" =>
     /\ auth.authNext =>
          /\ auth.route.authenticate
          /\ CarriesBearer(auth.header)
          /\ auth.token # <<>>
          /\ ~auth.validated.err
          /\ ~auth.validated.claims.expired
     /\ (auth.pc = "done" /\ auth.route.authenticate /\ ~auth.authNext) =>
          /\ auth.status = 401
          /\ ~auth.guardNext
          /\ ~auth.served
     /\ auth.guardNext =>
          /\ auth.hasClaims
          /\ auth.route.guard = "all" => auth.claims.hasAll
          /\ auth.route.guard = "any" => auth.claims.hasAny
     /\ auth.served => (auth.route.authenticate => auth.authNext)
     /\ auth.served => (auth.route.guard # "none" => auth.guardNext)
\* A request with expired claims was answered 401 by Authenticate in front of
\* RequirePermissions.
C26_Witness ==
  /\ auth.pc = "done"
  /\ auth.header = UpperBearerG
  /\ auth.route = [authenticate |-> TRUE, guard |-> "all"]
  /\ auth.validated.claims = [expired |-> TRUE, hasAll |-> TRUE, hasAny |-> TRUE]
  /\ auth.status = 401
  /\ ~auth.served

\* C27: when the health handler has answered, it has called every checker, in
\* order, whatever the earlier ones returned; the status is "unhealthy" and
\* the HTTP status 503 if and only if at least one checker returned an error;
\* otherwise the status is "healthy" and the HTTP status 200.
C27_Health ==
  health.pc = "done" =>
    LET failed == \E i \in DOMAIN health.checkers : health.checkers[i].err IN
      /\ health.checked = [i \in DOMAIN health.checkers |-> health.checkers[i].name]
      /\ failed <=> (health.status = "unhealthy" /\ health.w.code = 503)
      /\ ~failed <=> (health.status = "healthy" /\ health.w.code = 200)
\* The first checker failed, the two after it passed and were still called.
C27_Witness ==
  /\ health.pc = "done"
  /\ health.checkers = <<[name |-> "db", err |-> TRUE], [name |-> "svc", err |-> FALSE],
                         [name |-> "db", err |-> FALSE]>>
  /\ health.checked = <<"db", "svc", "db">>
  /\ health.status = "unhealthy"
  /\ health.w.code = 503

====
